---- MODULE Spec2Model ----
(***************************************************************************)
(* A model of the comparator core of pcomp-rs: stochastic languages,       *)
(* distance matrices, the weighted Levenshtein distance and the binners.   *)
(*                                                                         *)
(* f64 values are modelled exactly: a quotient v / n of two small naturals *)
(* is the reduced fraction [num, den], 0.0 / 0.0 is NaN and x / 0.0 with   *)
(* x > 0 is Inf.  Edit costs, which are multiples of 0.25 in the source,   *)
(* are kept as integers in units of 1 / CostScale.                         *)
(***************************************************************************)
EXTENDS Integers, Sequences, FiniteSets, TLC

VARIABLES
    component,   \* which part of the crate the behaviour exercises
    items,       \* stochastic_language.rs: the Vec<T> handed to from_items
    calls,       \* how many from_items calls were made: 0, 1 or 2
    lang,        \* the StochasticLanguage returned by the last call
    prev_items,  \* the argument of the call before the last one
    prev_lang,   \* the language returned by the call before the last one
    cost_fn,     \* the comparator's cost function (its parameters)
    variants,    \* the list handed to compute_symmetric_distance_matrix
                 \* (combined_variants inside compare)
    mat,         \* compute_symmetric_distance_matrix: the matrix being filled
    mi,          \* ... the outer loop's index i (1-based)
    mj,          \* ... the inner loop's index j (1-based)
    evaluated,   \* ... the index pairs cost was evaluated at, in order
    dists,       \* the matrix returned by compute_distance_matrix
    pc,          \* PermutationTestComparator::compare: the position reached
    behavior_1,  \* compare: the representations extracted from log 1
    behavior_2,  \* compare: the representations extracted from log 2
    stoch_lang_1,            \* compare: from_items(behavior_1)
    stoch_lang_2,            \* compare: from_items(behavior_2)
    log_1_log_2_distances,   \* compare: the projected distance matrix
    token_type,  \* weighted_levenshtein.rs: the impl of LevenshteinDistance used
    trace_1,     \* the first token sequence
    trace_2,     \* the second token sequence
    lev_calls,   \* 0: no call yet; 1: (trace_1, trace_2) done; 2: swapped call done
    dp_matrix,   \* the DP matrix of the call on (trace_1, trace_2), <<>> if none
    distance,    \* weighted_levenshtein_distance(trace_1, trace_2), in 1/CostScale
    normalized,  \* postnormalized_weighted_levenshtein_distance(trace_1, trace_2)
    swapped_distance,    \* weighted_levenshtein_distance(trace_2, trace_1)
    swapped_normalized,  \* postnormalized_..._distance(trace_2, trace_1)
    bin_pc,      \* binning: "untrained", "trained", "binned" or "panicked"
    combined_data, \* the (key, value) pairs handed to from_key_value_pairs
    args,        \* KMeansArgs: [k, max_iter] (the seed is the choice of `first`)
    binners,     \* BinnerManager.binners: key -> the key's sorted centroids
    time_trace,  \* the service-time trace last handed to the binner manager
    tokens,      \* the (activity, bin) tokens of the last binned trace
    pct_pc,      \* percentile binner: "untrained", "trained" or "panicked"
    pct_data,    \* the data handed to OuterPercentileBinner::new
    pct_args,    \* the percentile handed to OuterPercentileBinner::new
    lower_boundary,  \* OuterPercentileBinner.lower_boundary
    upper_boundary,  \* OuterPercentileBinner.upper_boundary
    pct_value,   \* the value bin was last called on
    pct_bins,    \* the bins returned by the calls of bin(pct_value), in order
    comparator,  \* compare: "bootstrap" or "permutation"
    resample_size,      \* compare (bootstrap): the size of one sample
    distribution_size,  \* compare: the number of resampling iterations
    seed,        \* compare: s for Some(s), NoSeed for None
    run,         \* 1 in the first call of compare, 2 in a repeated call
    rng,         \* the generator of the call: its seed and how much it produced
    samples,     \* seeded bootstrap: the sample_indices of each iteration so far
    logs_emd,    \* compare: the EMD between the two logs
    emds,        \* compare: bootstrap_emds / permutation_emds so far
    pvalue,      \* compare: the p-value
    sample_1,    \* last iteration: sample_indices / the case indices of group 1
    sample_2,    \* last iteration (permutation): the case indices of group 2
    first_result, \* the result returned by the first call of compare
    emd_call,    \* compare: the arguments of the last compute_emd call and,
                 \* for each row and column of its costs, the variant meant
    emd_pc,      \* emd(): "called", "solving" (in c_emd_wrapper) or "returned"
    emd_given,   \* emd(): the weights and costs as the caller handed them in
    emd_source,  \* emd(): *source_weights
    emd_target,  \* emd(): *target_weights
    emd_costs,   \* emd(): *costs
    emd_iterations, \* emd(): iterations
    emd_result,  \* emd(): the returned Result
    prep_pc,     \* ensure_start_timestamp_key: "called" or "returned"
    prep_given,  \* the log as the caller handed it in: its traces' events
    prep_log,    \* the log: for each trace its events
    prep_result  \* "none", "Ok" or "Err" (an AttributeError)

langVars == <<items, calls, lang, prev_items, prev_lang>>

matrixVars == <<cost_fn, variants, mat, mi, mj, evaluated, dists>>

compareVars == <<pc, behavior_1, behavior_2, stoch_lang_1, stoch_lang_2,
                 log_1_log_2_distances>>

levVars == <<token_type, trace_1, trace_2, lev_calls, dp_matrix, distance,
             normalized, swapped_distance, swapped_normalized>>

binVars == <<bin_pc, combined_data, args, binners, time_trace, tokens>>

pctVars == <<pct_pc, pct_data, pct_args, lower_boundary, upper_boundary,
             pct_value, pct_bins>>

testVars == <<comparator, resample_size, distribution_size, seed, run, rng, samples,
              logs_emd, emds, pvalue, sample_1, sample_2, first_result,
              emd_call>>

emdVars == <<emd_pc, emd_given, emd_source, emd_target, emd_costs,
             emd_iterations, emd_result>>

prepVars == <<prep_pc, prep_given, prep_log, prep_result>>

vars == <<component, langVars, matrixVars, compareVars, levVars, binVars,
         pctVars,
         testVars,
         emdVars,
         prepVars>>

\* ---------------------------------------------------------------- bounds
\* The variants T are opaque, hashable and totally ordered: 1..NumVariants.
NumVariants == 3
\* Longest list of items handed to from_items.
MaxItems == 3
\* Longest list of variants handed directly to a distance-matrix function.
MaxMatrix == 3
\* Largest number of cases in one event log.
MaxLog == 2
\* Costs of the abstract cost function are residues modulo CostMod.
CostMod == 3
\* Longest token sequence handed to the edit distance (the crate's own test
\* inputs are added to these).
MaxTrace == 2
\* Service times are the whole numbers 0 .. MaxValue.
MaxValue == 2
\* Largest number of (key, value) pairs a binner manager is trained on.
MaxData == 2
\* Largest number of clusters k the k-means binner is configured with.
MaxK == 4
\* Largest max_iter the k-means binner is configured with.
MaxIter == 1
\* Largest number of cases of the two compared logs together.
MaxPool == 3
\* Largest resample_size handed to the bootstrap comparator.
MaxResample == 2
\* Largest distribution_size handed to a comparator without a seed; with a
\* seed, whose draws are fixed, it is one more.
MaxDist == 1
\* The seeds handed to a comparator are 0 .. MaxSeed - 1.
MaxSeed == 1
\* The weight vectors and the sides of the cost matrix handed to emd() have
\* at most MaxVec entries.
MaxVec == 2
\* A log handed to ensure_start_timestamp_key is one trace of at most
\* MaxEvents events, or two traces of fewer than MaxEvents events together.
MaxEvents == 3

\* ------------------------------------------------------------- constants
\* Edit costs are multiples of 0.25 = 0.5 * (1 / 2.0); they are kept in
\* units of 1 / CostScale.
CostScale == 4
\* The bin indices of a three-bin binner are 0 .. NumBins - 1.
NumBins == 3

\* ------------------------------------------------------------ arithmetic
Max(a, b) == IF a < b THEN b ELSE a

Min(a, b) == IF a < b THEN a ELSE b

RECURSIVE GCD(_, _)
GCD(a, b) == IF b = 0 THEN a ELSE GCD(b, a % b)

NaN == [num |-> 0, den |-> 0]

Inf == [num |-> 1, den |-> 0]

\* The f64 quotient a / b of two naturals.
Div(a, b) ==
    IF b = 0 THEN (IF a = 0 THEN NaN ELSE Inf)
    ELSE LET g == GCD(a, b) IN [num |-> a \div g, den |-> b \div g]

IsNumber(x) == x.den # 0

\* x <= y on f64 numbers (false when either is NaN).
FLeq(x, y) ==
    /\ x # NaN
    /\ y # NaN
    /\ IF x.den = 0 THEN y.den = 0
       ELSE IF y.den = 0 THEN TRUE
       ELSE x.num * y.den <= y.num * x.den

FLess(x, y) == FLeq(x, y) /\ x # y

RECURSIVE SeqSum(_)
SeqSum(s) == IF s = <<>> THEN 0 ELSE Head(s) + SeqSum(Tail(s))

Range(s) == {s[i] : i \in 1..Len(s)}

SeqsUpTo(S, n) == UNION {[1..k -> S] : k \in 0..n}

\* All orders in which the elements of the finite set S can be enumerated.
Enumerations(S) ==
    {f \in [1..Cardinality(S) -> S] : \A i, j \in 1..Cardinality(S) : i # j => f[i] # f[j]}

\* All rearrangements of the sequence s.
Rearrangements(s) ==
    {[i \in 1..Len(s) |-> s[p[i]]] : p \in Enumerations(1..Len(s))}

Occurrences(s, x) == Cardinality({i \in 1..Len(s) : s[i] = x})

\* ------------------------------------------------- stochastic language
Variant == 1..NumVariants

\* itertools' counts(): a HashMap from each distinct item to its count.
\* *map.entry(item).or_default() += 1
Increment(map, x) ==
    [k \in DOMAIN map \cup {x} |->
        IF k = x THEN (IF x \in DOMAIN map THEN map[x] + 1 ELSE 1) ELSE map[k]]

EmptyMap == [k \in {} |-> 0]

RECURSIVE CountsFold(_)
CountsFold(s) ==
    IF s = <<>> THEN EmptyMap
    ELSE Increment(CountsFold(SubSeq(s, 1, Len(s) - 1)), s[Len(s)])

CountsOnlyInserted(s) == [x \in Range(s) |-> 1]

counts(s) == CountsFold(s)

\* partial_cmp on (T, f64) tuples: lexicographic.
PairLess(x, y) ==
    IF x[1] # y[1] THEN x[1] < y[1] ELSE FLess(x[2], y[2])

RECURSIVE InsertSorted(_, _)
InsertSorted(x, s) ==
    IF s = <<>> THEN <<x>>
    ELSE IF PairLess(x, Head(s)) THEN <<x>> \o s
    ELSE <<Head(s)>> \o InsertSorted(x, Tail(s))

RECURSIVE StableSort(_)
StableSort(s) ==
    IF s = <<>> THEN <<>>
    ELSE InsertSorted(s[Len(s)], StableSort(SubSeq(s, 1, Len(s) - 1)))

NotSorted(pairs) == pairs

\* .sorted_by(|x, y| x.partial_cmp(y).unwrap())
sorted_by(pairs) == StableSort(pairs)

\* impl FromIterator<(T, f64)>: multiunzip into the two parallel vectors.
from_iter(pairs) ==
    [variants |-> [i \in 1..Len(pairs) |-> pairs[i][1]],
     frequencies |-> [i \in 1..Len(pairs) |-> pairs[i][2]]]

\* StochasticLanguage::from_items; `order` is the order in which the
\* HashMap of counts happens to be iterated.
from_items(s, order) ==
    LET population_size == Len(s)
        c == counts(s)
        pairs == [i \in 1..Len(order) |->
                     <<order[i], Div(c[order[i]], population_size)>>]
    IN from_iter(sorted_by(pairs))

\* ----------------------------------------------- weighted edit distance
\* impl LevenshteinDistance for String / char: tokens are labels.
Label_insertion_cost(tok) == CostScale

Label_deletion_cost(tok) == CostScale

Label_substitution_cost(tok, other) == IF tok = other THEN 0 ELSE CostScale

\* impl LevenshteinDistance for (String, usize): tokens are <<activity, bin>>.
\* 0.5 * (1 + self.1) as f64
Timed_insertion_cost(tok) == (CostScale \div 2) * (1 + tok[2])

Timed_deletion_cost(tok) == (CostScale \div 2) * (1 + tok[2])

\* 0.5 * (string_cost + usize_cost as f64 / 2.0)
Timed_substitution_cost(tok, other) ==
    LET string_cost == IF tok[1] = other[1] THEN 0 ELSE 1
        usize_cost == IF tok[2] > other[2] THEN tok[2] - other[2]
                      ELSE other[2] - tok[2]
    IN (CostScale \div 2) * string_cost + (CostScale \div 4) * usize_cost

\* Trait dispatch on the token type of the two slices.
insertion_cost(tok) ==
    IF token_type = "label" THEN Label_insertion_cost(tok)
    ELSE Timed_insertion_cost(tok)

deletion_cost(tok) ==
    IF token_type = "label" THEN Label_deletion_cost(tok)
    ELSE Timed_deletion_cost(tok)

substitution_cost(tok, other) ==
    IF token_type = "label" THEN Label_substitution_cost(tok, other)
    ELSE Timed_substitution_cost(tok, other)

float_min(x, y) == IF x < y THEN x ELSE y

TripleMinDropsSubstitution(x, y, z) == float_min(x, y)

triple_min_f64(x, y, z) == float_min(x, float_min(y, z))

\* Row 0 of the matrix: matrix[(0, j)] = matrix[(0, j - 1)] + insertion cost.
RECURSIVE FirstRow(_)
FirstRow(t2) ==
    IF t2 = <<>> THEN <<0>>
    ELSE LET before == FirstRow(SubSeq(t2, 1, Len(t2) - 1))
         IN Append(before, before[Len(before)] + insertion_cost(t2[Len(t2)]))

FirstColumnLeftZero(t1) == [i \in 1..(Len(t1) + 1) |-> 0]

\* Column 0 of the matrix, filled with the insertion costs of trace_1.
FirstColumnOf(t1) == FirstRow(t1)

\* Row i + 1 of the matrix from row i (`above`), for event_1 = trace_1[i]:
\* cells 0 .. j of the row, cell 0 being `first`.
RECURSIVE FillRow(_, _, _, _, _)
FillRow(above, first, event_1, t2, j) ==
    IF j = 0 THEN <<first>>
    ELSE LET left == FillRow(above, first, event_1, t2, j - 1)
             event_2 == t2[j]
         IN Append(left,
                   triple_min_f64(above[j + 1] + deletion_cost(event_1),
                                  left[j] + insertion_cost(event_2),
                                  above[j] + substitution_cost(event_1, event_2)))

\* Rows 0 .. i of the matrix.
RECURSIVE FillMatrix(_, _, _)
FillMatrix(t1, t2, i) ==
    IF i = 0 THEN <<FirstRow(t2)>>
    ELSE LET rows == FillMatrix(t1, t2, i - 1)
         IN Append(rows,
                   FillRow(rows[i], FirstColumnOf(t1)[i + 1], t1[i], t2, Len(t2)))

\* The matrix weighted_levenshtein_distance allocates, <<>> when it returns
\* before allocating one.
LevMatrix(t1, t2) == IF t1 = t2 THEN <<>> ELSE FillMatrix(t1, t2, Len(t1))

weighted_levenshtein_distance(t1, t2) ==
    IF t1 = t2 THEN 0
    ELSE LevMatrix(t1, t2)[Len(t1) + 1][Len(t2) + 1]

ShorterLength(t1, t2) == Min(Len(t1), Len(t2))

\* max(trace_1.len(), trace_2.len())
LongerLength(t1, t2) == Max(Len(t1), Len(t2))

postnormalized_weighted_levenshtein_distance(t1, t2) ==
    Div(weighted_levenshtein_distance(t1, t2), CostScale * LongerLength(t1, t2))

Activities == {"a", "b"}

LabelTokens == Activities

TimedTokens == Activities \X (0..(NumBins - 1))

\* ------------------------------------------------------ distance matrices
Abs(x) == IF x < 0 THEN -x ELSE x

\* An ndarray Array2<f64> of shape (n, m) holding cells[<<i, j>>].
from_shape_fn(n, m, cells) ==
    [nrows |-> n, ncols |-> m,
     cell |-> [ij \in (1..n) \X (1..m) |-> cells[ij]]]

zeros(n, m) == from_shape_fn(n, m, [ij \in (1..n) \X (1..m) |-> Div(0, 1)])

NoMatrix == zeros(0, 0)

\* The cost functions a comparator may supply: (p*a + q*b + r*|a-b|) mod
\* CostMod; symmetric when p = q.
CostFns == [p : 0..(CostMod - 1), q : 0..(CostMod - 1), r : {0, 1}]

\* The control-flow comparators' representations are activity sequences.
\* Representation v stands for the sequence of v - 1 activities a, b, a, ..;
\* the order of the numbers is the order of the sequences (Vec<String>: Ord).
ActivitiesOf(v) == [i \in 1..(v - 1) |-> IF i % 2 = 1 THEN "a" ELSE "b"]

\* The cost function of ControlFlowBootstrapComparator and of
\* ControlFlowPermutationComparator.
ControlFlowCost == [p |-> 0, q |-> 0, r |-> 0, strategy |-> "control_flow"]

\* fn cost(&self, rep_1: &T, rep_2: &T) -> f64
cost(rep_1, rep_2) ==
    IF "strategy" \in DOMAIN cost_fn
    THEN postnormalized_weighted_levenshtein_distance(ActivitiesOf(rep_1),
                                                      ActivitiesOf(rep_2))
    ELSE Div((cost_fn.p * rep_1 + cost_fn.q * rep_2
                 + cost_fn.r * Abs(rep_1 - rep_2)) % CostMod, 1)

\* BootstrapTestComparator::compute_distance_matrix
compute_distance_matrix(variants_1, variants_2) ==
    from_shape_fn(Len(variants_1), Len(variants_2),
                  [ij \in (1..Len(variants_1)) \X (1..Len(variants_2)) |->
                      cost(variants_1[ij[1]], variants_2[ij[2]])])

\* The loops of compute_symmetric_distance_matrix have run to their end.
MatrixDone == mi > Len(variants)

MirrorSkipped(m, i, j, v) ==
    [m EXCEPT !.cell = [m.cell EXCEPT ![<<i, j>>] = v]]

\* mat[(i, j)] = v; mat[(j, i)] = mat[(i, j)];
StoreMirrored(m, i, j, v) ==
    [m EXCEPT !.cell = [m.cell EXCEPT ![<<i, j>>] = v, ![<<j, i>>] = v]]

FirstColumnNoSkip(i) == 1

\* variants.iter().enumerate().skip(i): the inner loop starts at column i.
FirstColumn(i) == i

\* One iteration of the inner loop of compute_symmetric_distance_matrix.
SymmetricStep ==
    /\ component \in {"matrix", "permutation"}
    /\ pc = "matrix"
    /\ ~MatrixDone
    /\ mat' = StoreMirrored(mat, mi, mj, cost(variants[mi], variants[mj]))
    /\ evaluated' = Append(evaluated, <<mi, mj>>)
    /\ IF mj < Len(variants)
       THEN /\ mj' = mj + 1
            /\ mi' = mi
       ELSE /\ mi' = mi + 1
            /\ mj' = FirstColumn(mi + 1)
    /\ UNCHANGED <<component, langVars, cost_fn, variants, dists, compareVars, levVars, binVars,
                   pctVars, testVars, emdVars, prepVars>>

\* A bootstrap comparator computes the matrix of the same list against itself.
ComputeDistanceMatrix ==
    /\ component = "matrix"
    /\ dists = NoMatrix
    /\ variants # <<>>
    /\ dists' = compute_distance_matrix(variants, variants)
    /\ UNCHANGED <<component, langVars, cost_fn, variants, mat, mi, mj,
                   evaluated, compareVars, levVars, binVars, pctVars,
                   testVars, emdVars, prepVars>>

IdleMatrix ==
    /\ cost_fn = [p |-> 0, q |-> 0, r |-> 0]
    /\ variants = <<>>
    /\ mat = NoMatrix
    /\ mi = 1
    /\ mj = 1
    /\ evaluated = <<>>
    /\ dists = NoMatrix

\* Placeholder for a language that has not been computed yet.
NoLanguage == [variants |-> <<>>, frequencies |-> <<>>]

\* The variables of the parts a behaviour does not exercise.
\* seed: None
NoSeed == -1

NoResult == [logs_emd |-> NaN, emds |-> <<>>, pvalue |-> NaN, samples |-> <<>>]

IdlePrep ==
    /\ prep_pc = "idle"
    /\ prep_given = <<>>
    /\ prep_log = <<>>
    /\ prep_result = "none"

\* emd() has returned nothing yet.
NoEmdResult == [kind |-> "none", args |-> <<>>, emd |-> NaN, code |-> -1]

IdleEmd ==
    /\ emd_pc = "idle"
    /\ emd_given = [source |-> <<>>, target |-> <<>>, costs |-> NoMatrix]
    /\ emd_source = <<>>
    /\ emd_target = <<>>
    /\ emd_costs = NoMatrix
    /\ emd_iterations = 0
    /\ emd_result = NoEmdResult

\* StdRng::from_entropy()
from_entropy == [seed |-> NoSeed, drawn |-> 0]

NoCall == [rows |-> <<>>, columns |-> <<>>, frequencies_1 |-> <<>>,
           frequencies_2 |-> <<>>, distances |-> NoMatrix]

IdleTest ==
    /\ comparator = "none"
    /\ resample_size = 0
    /\ distribution_size = 0
    /\ seed = NoSeed
    /\ run = 1
    /\ rng = from_entropy
    /\ samples = <<>>
    /\ logs_emd = NaN
    /\ emds = <<>>
    /\ pvalue = NaN
    /\ sample_1 = <<>>
    /\ sample_2 = <<>>
    /\ first_result = NoResult
    /\ emd_call = NoCall

IdlePct ==
    /\ pct_pc = "idle"
    /\ pct_data = <<>>
    /\ pct_args = 0
    /\ lower_boundary = NaN
    /\ upper_boundary = NaN
    /\ pct_value = 0
    /\ pct_bins = <<>>

IdleBin ==
    /\ bin_pc = "idle"
    /\ combined_data = <<>>
    /\ args = [k |-> 0, max_iter |-> 0]
    /\ binners = <<>>
    /\ time_trace = <<>>
    /\ tokens = <<>>

IdleLev ==
    /\ token_type = "label"
    /\ trace_1 = <<>>
    /\ trace_2 = <<>>
    /\ lev_calls = 0
    /\ dp_matrix = <<>>
    /\ distance = 0
    /\ normalized = NaN
    /\ swapped_distance = 0
    /\ swapped_normalized = NaN

IdleLang ==
    /\ items = <<>>
    /\ calls = 0
    /\ lang = NoLanguage
    /\ prev_items = <<>>
    /\ prev_lang = NoLanguage

\* -------------------------------------- PermutationTestComparator::compare
RECURSIVE InsertOrdered(_, _)
InsertOrdered(x, s) ==
    IF s = <<>> THEN <<x>>
    ELSE IF x < Head(s) THEN <<x>> \o s
    ELSE <<Head(s)>> \o InsertOrdered(x, Tail(s))

\* The vector in the order in which it was collected.
KeptAsCollected(v) == v

\* Vec<T>::sort(), a stable sort by T's order.
RECURSIVE sort(_)
sort(v) ==
    IF v = <<>> THEN <<>>
    ELSE InsertOrdered(v[Len(v)], sort(SubSeq(v, 1, Len(v) - 1)))

\* iter().position(|x| x == item): the first index holding item, 0 for None.
position(population, item) ==
    IF \E i \in 1..Len(population) : population[i] = item
    THEN CHOOSE i \in 1..Len(population) :
            /\ population[i] = item
            /\ \A k \in 1..(i - 1) : population[k] # item
    ELSE 0

\* The leading rows and columns of d, as many as `rows` and `cols` list.
SelectLeading(d, rows, cols) ==
    from_shape_fn(Len(rows), Len(cols),
                  [ab \in (1..Len(rows)) \X (1..Len(cols)) |-> d.cell[ab]])

\* dists.select(Axis(0), rows).select(Axis(1), cols)
select2(d, rows, cols) ==
    from_shape_fn(Len(rows), Len(cols),
                  [ab \in (1..Len(rows)) \X (1..Len(cols)) |->
                      d.cell[<<rows[ab[1]], cols[ab[2]]>>]])

PositionsOf(source, population) ==
    [a \in 1..Len(population.variants) |-> position(source, population.variants[a])]

\* Some .position(..).unwrap() of project_distance_matrix panics.
ProjectPanics(source, population_1, population_2) ==
    \E x \in Range(population_1.variants) \cup Range(population_2.variants) :
        position(source, x) = 0

ProjectRowsTwice(d, source, population_1, population_2) ==
    select2(d, PositionsOf(source, population_1), PositionsOf(source, population_1))

project_distance_matrix(d, source, population_1, population_2) ==
    select2(d, PositionsOf(source, population_1), PositionsOf(source, population_2))

\* The comparator is handed the cost function of a concrete strategy.
CompareCostFns ==
    {[p |-> 0, q |-> 0, r |-> 1], [p |-> 1, q |-> 1, r |-> 0],
     [p |-> 1, q |-> 0, r |-> 0]}

NonEmptySeqsUpTo(S, n) == SeqsUpTo(S, n) \ {<<>>}

\* compare, after extract_representations returned Ok((behavior_1, behavior_2)).
InitCompare ==
    /\ component = "permutation"
    /\ IdlePrep
    /\ IdleEmd
    /\ IdleTest
    /\ IdlePct
    /\ IdleLang
    /\ IdleLev
    /\ IdleBin
    /\ cost_fn \in CompareCostFns
    /\ behavior_1 \in NonEmptySeqsUpTo(Variant, MaxLog)
    /\ behavior_2 \in NonEmptySeqsUpTo(Variant, MaxLog)
    /\ pc = "start"
    /\ variants = <<>>
    /\ mat = NoMatrix
    /\ mi = 1
    /\ mj = 1
    /\ evaluated = <<>>
    /\ dists = NoMatrix
    /\ stoch_lang_1 = NoLanguage
    /\ stoch_lang_2 = NoLanguage
    /\ log_1_log_2_distances = NoMatrix

\* compare, lines 65-72: pool the representations of both logs in a HashSet,
\* collect it in whatever order it iterates, and sort.
PoolVariants ==
    /\ component = "permutation"
    /\ pc = "start"
    /\ \E pooled \in Enumerations(Range(behavior_1 \o behavior_2)) :
          variants' = sort(pooled)
    /\ pc' = "pooled"
    /\ UNCHANGED <<component, langVars, cost_fn, mat, mi, mj, evaluated, dists,
                   behavior_1, behavior_2, stoch_lang_1, stoch_lang_2,
                   log_1_log_2_distances, levVars, binVars, pctVars,
                   testVars, emdVars, prepVars>>

\* compare, lines 73-76: build both languages (each count map iterates in any
\* order) and enter compute_symmetric_distance_matrix.
BuildLanguages ==
    /\ component = "permutation"
    /\ pc = "pooled"
    /\ \E order_1 \in Enumerations(Range(behavior_1)) :
          stoch_lang_1' = from_items(behavior_1, order_1)
    /\ \E order_2 \in Enumerations(Range(behavior_2)) :
          stoch_lang_2' = from_items(behavior_2, order_2)
    /\ mat' = zeros(Len(variants), Len(variants))
    /\ mi' = 1
    /\ mj' = 1
    /\ evaluated' = <<>>
    /\ pc' = "matrix"
    /\ UNCHANGED <<component, langVars, cost_fn, variants, dists, behavior_1,
                   behavior_2, log_1_log_2_distances, levVars, binVars,
                   pctVars, testVars, emdVars, prepVars>>

\* compare, lines 78-83: project the pooled matrix onto the two logs.
ProjectBaseline ==
    /\ component = "permutation"
    /\ pc = "matrix"
    /\ MatrixDone
    /\ IF ProjectPanics(variants, stoch_lang_1, stoch_lang_2)
       THEN /\ pc' = "panicked"
            /\ UNCHANGED log_1_log_2_distances
       ELSE /\ pc' = "projected"
            /\ log_1_log_2_distances' =
                  project_distance_matrix(mat, variants, stoch_lang_1, stoch_lang_2)
    /\ UNCHANGED <<component, langVars, matrixVars, behavior_1, behavior_2,
                   stoch_lang_1, stoch_lang_2, levVars, binVars, pctVars,
                   testVars, emdVars, prepVars>>

NextCompare ==
    PoolVariants \/ BuildLanguages \/ SymmetricStep \/ ProjectBaseline

SpecCompare == InitCompare /\ [][NextCompare]_vars

IdleCompare ==
    /\ pc = "idle"
    /\ behavior_1 = <<>>
    /\ behavior_2 = <<>>
    /\ stoch_lang_1 = NoLanguage
    /\ stoch_lang_2 = NoLanguage
    /\ log_1_log_2_distances = NoMatrix

\* The inputs of the tests of weighted_levenshtein.rs.
TestKitten == <<"k", "i", "t", "t", "e", "n">>

TestSitting == <<"s", "i", "t", "t", "i", "n", "g">>

TestSaturday == <<"S", "a", "t", "u", "r", "d", "a", "y">>

TestSunday == <<"S", "u", "n", "d", "a", "y">>

TestTimed1 == << <<"a", 1>>, <<"b", 1>>, <<"c", 2>>, <<"d", 2>> >>

TestTimed2 == << <<"a", 1>>, <<"c", 2>>, <<"b", 1>>, <<"d", 0>> >>

LevInputs ==
    ({"label"} \X SeqsUpTo(LabelTokens, MaxTrace) \X SeqsUpTo(LabelTokens, MaxTrace))
    \cup
    ({"timed"} \X SeqsUpTo(TimedTokens, MaxTrace) \X SeqsUpTo(TimedTokens, MaxTrace))
    \cup
    {<<"label", TestKitten, TestSitting>>, <<"label", TestSaturday, TestSunday>>,
     <<"timed", TestTimed1, TestTimed2>>}

InitLev ==
    /\ component = "levenshtein"
    /\ IdlePrep
    /\ IdleEmd
    /\ IdleTest
    /\ IdlePct
    /\ IdleLang
    /\ IdleMatrix
    /\ IdleCompare
    /\ IdleBin
    /\ \E input \in LevInputs :
          /\ token_type = input[1]
          /\ trace_1 = input[2]
          /\ trace_2 = input[3]
    /\ lev_calls = 0
    /\ dp_matrix = <<>>
    /\ distance = 0
    /\ normalized = NaN
    /\ swapped_distance = 0
    /\ swapped_normalized = NaN

\* postnormalized_weighted_levenshtein_distance(&trace_1, &trace_2)
Postnormalized ==
    /\ component = "levenshtein"
    /\ lev_calls = 0
    /\ dp_matrix' = LevMatrix(trace_1, trace_2)
    /\ distance' = weighted_levenshtein_distance(trace_1, trace_2)
    /\ normalized' = postnormalized_weighted_levenshtein_distance(trace_1, trace_2)
    /\ lev_calls' = 1
    /\ UNCHANGED <<component, langVars, matrixVars, compareVars, token_type,
                   trace_1, trace_2, swapped_distance, swapped_normalized, binVars,
                   pctVars, testVars, emdVars, prepVars>>

\* postnormalized_weighted_levenshtein_distance(&trace_2, &trace_1)
PostnormalizedSwapped ==
    /\ component = "levenshtein"
    /\ lev_calls = 1
    /\ swapped_distance' = weighted_levenshtein_distance(trace_2, trace_1)
    /\ swapped_normalized' =
          postnormalized_weighted_levenshtein_distance(trace_2, trace_1)
    /\ lev_calls' = 2
    /\ UNCHANGED <<component, langVars, matrixVars, compareVars, token_type,
                   trace_1, trace_2, dp_matrix, distance, normalized, binVars,
                   pctVars, testVars, emdVars, prepVars>>

NextLev == Postnormalized \/ PostnormalizedSwapped

SpecLev == InitLev /\ [][NextLev]_vars

\* ------------------------------------------------------ k-means binner
\* Centroids are means of whole numbers: f64 values kept as exact fractions.
\* square_distance in one dimension: (b - a) * (b - a).
square_distance(a, b) ==
    LET diff == b.num * a.den - a.num * b.den
    IN Div(diff * diff, a.den * a.den * b.den * b.den)

\* (data - val).abs()
abs_difference(a, b) == Div(Abs(a.num * b.den - b.num * a.den), a.den * b.den)

\* The least squared distance from elem to one of the centroids (dxmin).
ClosestDistance(elem, centroids) ==
    CHOOSE d \in {square_distance(elem, centroids[c]) : c \in 1..Len(centroids)} :
        \A c \in 1..Len(centroids) : FLeq(d, square_distance(elem, centroids[c]))

\* initialize, one round of the loop `for _ in 1..k`: imax is the first
\* remaining element farthest from its closest centroid, element 0 when none
\* remains (indices are 0-based, as in the source).
Farthest(elems, taken, centroids) ==
    LET remaining == {i \in 0..(Len(elems) - 1) : i \notin taken}
    IN IF remaining = {} THEN 0
       ELSE CHOOSE i \in remaining :
               \A j \in remaining :
                  LET di == ClosestDistance(elems[i + 1], centroids)
                      dj == ClosestDistance(elems[j + 1], centroids)
                  IN FLess(dj, di) \/ (dj = di /\ i <= j)

\* initialize after `round` rounds: [taken, centroids].
RECURSIVE SeedCentroids(_, _, _)
SeedCentroids(elems, first, round) ==
    IF round = 0
    THEN [taken |-> {first}, centroids |-> <<elems[first + 1]>>]
    ELSE LET before == SeedCentroids(elems, first, round - 1)
             imax == Farthest(elems, before.taken, before.centroids)
         IN [taken |-> before.taken \cup {imax},
             centroids |-> Append(before.centroids, elems[imax + 1])]

\* initialize(k, elems, seed); `first` is the seeded random index.
initialize(k, elems, first) ==
    SeedCentroids(elems, first, IF k >= 1 THEN k - 1 ELSE 0).centroids

\* The cluster an element moves to: the first centroid that is strictly
\* closer than every centroid before it and than the old one (0-based).
Reassign(elem, centroids, old) ==
    LET dold == square_distance(elem, centroids[old + 1])
        closer == {c \in 0..(Len(centroids) - 1) :
                      FLess(square_distance(elem, centroids[c + 1]), dold)}
    IN IF closer = {} THEN old
       ELSE CHOOSE c \in closer :
               \A e \in closer :
                  LET dc == square_distance(elem, centroids[c + 1])
                      de == square_distance(elem, centroids[e + 1])
                  IN FLess(dc, de) \/ (dc = de /\ c <= e)

\* The mean of the elements of one cluster, 0.0 for an empty cluster.
ClusterMean(elems, membership, clus) ==
    LET members == {i \in 1..Len(elems) : membership[i] = clus}
        total == SeqSum([i \in 1..Len(elems) |->
                            IF membership[i] = clus THEN elems[i].num ELSE 0])
    IN IF members = {} THEN Div(0, 1) ELSE Div(total, Cardinality(members))

\* The loop `for it in 0..iter` of kmeans with `left` iterations to go.
RECURSIVE Lloyd(_, _, _, _)
Lloyd(elems, centroids, membership, left) ==
    IF left = 0 THEN centroids
    ELSE LET assigned == [i \in 1..Len(elems) |->
                            Reassign(elems[i], centroids, membership[i])]
             moved == [c \in 1..Len(centroids) |->
                            ClusterMean(elems, assigned, c - 1)]
         IN IF assigned = membership THEN moved
            ELSE Lloyd(elems, moved, assigned, left - 1)

\* kmeans panics: `% elems.len()` on no elements, or counts[clus] += 1 on
\* the empty vector of counts when k = 0.
KMeansPanics(k, elems, iter) == elems = <<>> \/ (k = 0 /\ iter >= 1)

\* kmeans(k, elems, iter, seed).centroids
kmeans(k, elems, iter, first) ==
    Lloyd(elems, initialize(k, elems, first), [i \in 1..Len(elems) |-> 0], iter)

RECURSIVE InsertCentroid(_, _)
InsertCentroid(x, s) ==
    IF s = <<>> THEN <<x>>
    ELSE IF FLess(x, Head(s)) THEN <<x>> \o s
    ELSE <<Head(s)>> \o InsertCentroid(x, Tail(s))

\* The centroids left in the order kmeans returns them.
CentroidsNotSorted(s) == s

\* .sorted_by(|x, y| x.total_cmp(y))
RECURSIVE SortCentroids(_)
SortCentroids(s) ==
    IF s = <<>> THEN <<>>
    ELSE InsertCentroid(s[Len(s)], SortCentroids(SubSeq(s, 1, Len(s) - 1)))

\* KMeansBinner::new(data, args): the binner's sorted centroids.
KMeansBinner_new(data, a, first) ==
    SortCentroids(kmeans(a.k, [i \in 1..Len(data) |-> Div(data[i], 1)],
                         a.max_iter, first))

\* KMeansBinner::num_bins
num_bins(a) == a.k

\* KMeansBinner::bin: the index (0-based) of the first closest centroid.
KMeansBinner_bin(centroids, data) ==
    LET x == Div(data, 1)
    IN CHOOSE c \in 0..(Len(centroids) - 1) :
          \A e \in 0..(Len(centroids) - 1) :
             LET dc == abs_difference(x, centroids[c + 1])
                 de == abs_difference(x, centroids[e + 1])
             IN FLess(dc, de) \/ (dc = de /\ c <= e)

\* Grouping that forgets the key: every value of the combined data.
ValuesOfAnyKey(data, key) == [i \in 1..Len(data) |-> data[i][2]]

\* from_key_value_pairs: the values paired with one key, in their order.
RECURSIVE ValuesOf(_, _)
ValuesOf(data, key) ==
    IF data = <<>> THEN <<>>
    ELSE IF Head(data)[1] = key THEN <<Head(data)[2]>> \o ValuesOf(Tail(data), key)
    ELSE ValuesOf(Tail(data), key)

KeysOf(data) == {data[i][1] : i \in 1..Len(data)}

\* BinnerManager::bin(label, data); the key must have a binner.
BinnerManager_bin(manager, label, data) == KMeansBinner_bin(manager[label], data)

\* apply_binner_manager_on_service_time_trace
apply_binner_manager_on_service_time_trace(service_time_trace, manager) ==
    [i \in 1..Len(service_time_trace) |->
        <<service_time_trace[i][1],
          BinnerManager_bin(manager, service_time_trace[i][1],
                            service_time_trace[i][2])>>]

KeyValuePairs == Activities \X (0..MaxValue)

\* TimedLevenshteinBootstrapComparator::extract_representations, after the
\* service-time traces of both logs were pooled into (key, value) pairs.
InitBin ==
    /\ component = "binning"
    /\ IdlePrep
    /\ IdleEmd
    /\ IdleTest
    /\ IdlePct
    /\ IdleLang
    /\ IdleMatrix
    /\ IdleCompare
    /\ IdleLev
    /\ bin_pc = "untrained"
    /\ combined_data \in NonEmptySeqsUpTo(KeyValuePairs, MaxData)
    /\ args \in [k : 0..MaxK, max_iter : 0..MaxIter]
    /\ binners = <<>>
    /\ time_trace = <<>>
    /\ tokens = <<>>

\* BinnerManager::<f64, KMeansBinner>::from_key_value_pairs(combined_data, args):
\* one binner per key; each binner's first centroid is drawn at random.
FromKeyValuePairs ==
    /\ component = "binning"
    /\ bin_pc = "untrained"
    /\ IF \E key \in KeysOf(combined_data) :
             KMeansPanics(args.k, ValuesOf(combined_data, key), args.max_iter)
       THEN /\ bin_pc' = "panicked"
            /\ UNCHANGED binners
       ELSE /\ bin_pc' = "trained"
            /\ \E first \in [KeysOf(combined_data) -> 0..(MaxData - 1)] :
                  /\ \A key \in KeysOf(combined_data) :
                        first[key] < Len(ValuesOf(combined_data, key))
                  /\ binners' = [key \in KeysOf(combined_data) |->
                        KMeansBinner_new(ValuesOf(combined_data, key), args, first[key])]
    /\ UNCHANGED <<component, langVars, matrixVars, compareVars, levVars,
                   combined_data, args, time_trace, tokens, pctVars,
                   testVars, emdVars, prepVars>>

\* apply_binner_manager_on_service_time_trace on a trace of two events;
\* BinnerManager::bin panics for a key that has no binner.
ApplyBinnerManager ==
    /\ component = "binning"
    /\ bin_pc = "trained"
    /\ \E service_time_trace \in [1..2 -> KeyValuePairs] :
          /\ time_trace' = service_time_trace
          /\ IF \E i \in 1..2 : service_time_trace[i][1] \notin DOMAIN binners
             THEN /\ bin_pc' = "panicked"
                  /\ UNCHANGED tokens
             ELSE /\ bin_pc' = "binned"
                  /\ tokens' = apply_binner_manager_on_service_time_trace(
                                   service_time_trace, binners)
    /\ UNCHANGED <<component, langVars, matrixVars, compareVars, levVars,
                   combined_data, args, binners, pctVars, testVars, emdVars,
                   prepVars>>

NextBin == FromKeyValuePairs \/ ApplyBinnerManager

SpecBin == InitBin /\ [][NextBin]_vars

\* -------------------------------------------------- percentile binner
\* rank = percentile / 100.0 * (data.len() - 1) as f64, times 100.
RankTimes100(data, p) == p * (Len(data) - 1)

\* percentile panics on a percentile outside [0, 100]; on no data,
\* data.len() - 1 overflows or wraps to an index outside the slice.
PercentilePanics(data, p) == p < 0 \/ p > 100 \/ data = <<>>

\* Interpolation by the whole rank instead of its fractional part.
PercentileByWholeRank(data, p) ==
    LET sorted == sort(data)
        rank == RankTimes100(data, p)
        lower_index == rank \div 100
        upper_index == lower_index + (IF rank % 100 = 0 THEN 0 ELSE 1)
    IN Div(100 * sorted[lower_index + 1]
             + (sorted[upper_index + 1] - sorted[lower_index + 1]) * rank, 100)

\* percentile(data, percentile) for p in [0, 100] and data not empty.
percentile(data, p) ==
    LET sorted == sort(data)
        rank == RankTimes100(data, p)
        lower_index == rank \div 100
        upper_index == lower_index + (IF rank % 100 = 0 THEN 0 ELSE 1)
        lower_value == sorted[lower_index + 1]
        upper_value == sorted[upper_index + 1]
    IN IF lower_index = upper_index THEN Div(lower_value, 1)
       ELSE Div(100 * lower_value
                  + (upper_value - lower_value) * (rank - 100 * lower_index),
                100)

\* OuterPercentileBinner::num_bins
OuterPercentileBinner_num_bins == NumBins

\* OuterPercentileBinner::bin
OuterPercentileBinner_bin(lower, upper, data) ==
    IF FLess(Div(data, 1), lower) THEN 0
    ELSE IF FLess(Div(data, 1), upper) THEN 1
    ELSE 2

\* The percentiles a binner is configured with, some outside [0, 100].
PercentileArgs == {-10, 0, 10, 25, 50, 75, 90, 100, 110}

InitPct ==
    /\ component = "percentile"
    /\ IdlePrep
    /\ IdleEmd
    /\ IdleTest
    /\ IdleLang
    /\ IdleMatrix
    /\ IdleCompare
    /\ IdleLev
    /\ IdleBin
    /\ pct_pc = "untrained"
    /\ pct_data \in SeqsUpTo(0..MaxValue, MaxData + 1)
    /\ pct_args \in PercentileArgs
    /\ lower_boundary = NaN
    /\ upper_boundary = NaN
    /\ pct_value = 0
    /\ pct_bins = <<>>

\* OuterPercentileBinner::new(data, args)
OuterPercentileBinnerNew ==
    /\ component = "percentile"
    /\ pct_pc = "untrained"
    /\ IF PercentilePanics(pct_data, pct_args)
          \/ PercentilePanics(pct_data, 100 - pct_args)
       THEN /\ pct_pc' = "panicked"
            /\ UNCHANGED <<lower_boundary, upper_boundary>>
       ELSE /\ pct_pc' = "trained"
            /\ lower_boundary' = percentile(pct_data, pct_args)
            /\ upper_boundary' = percentile(pct_data, 100 - pct_args)
    /\ UNCHANGED <<component, langVars, matrixVars, compareVars, levVars,
                   binVars, pct_data, pct_args, pct_value, pct_bins,
                   testVars, emdVars, prepVars>>

\* OuterPercentileBinner::bin(data): a first call on some value, or one
\* more call on the value of the call before.
OuterPercentileBinnerBin ==
    /\ component = "percentile"
    /\ pct_pc = "trained"
    /\ Len(pct_bins) < 2
    /\ \E data \in 0..MaxValue :
          /\ pct_bins # <<>> => data = pct_value
          /\ pct_value' = data
          /\ pct_bins' = Append(pct_bins,
                OuterPercentileBinner_bin(lower_boundary, upper_boundary, data))
    /\ UNCHANGED <<component, langVars, matrixVars, compareVars, levVars,
                   binVars, pct_pc, pct_data, pct_args, lower_boundary,
                   upper_boundary, testVars, emdVars, prepVars>>

NextPct == OuterPercentileBinnerNew \/ OuterPercentileBinnerBin

SpecPct == InitPct /\ [][NextPct]_vars

\* ------------------------------------------------------------------ EMD
LCM(a, b) == (a * b) \div GCD(a, b)

\* A common denominator of a vector of f64 values.
RECURSIVE CommonDen(_)
CommonDen(fs) ==
    IF fs = <<>> THEN 1 ELSE LCM(Head(fs).den, CommonDen(Tail(fs)))

\* The vector as whole multiples of 1 / d.
Multiples(fs, d) == [i \in 1..Len(fs) |-> fs[i].num * (d \div fs[i].den)]

\* weights.sum()
RECURSIVE Sum(_)
Sum(fs) ==
    IF fs = <<>> THEN Div(0, 1)
    ELSE LET rest == Sum(Tail(fs))
         IN Div(Head(fs).num * rest.den + rest.num * Head(fs).den,
                Head(fs).den * rest.den)

\* *target_weights *= source_weights.sum() / target_weights.sum()
Rescaled(source_weights, target_weights) ==
    LET s == Sum(source_weights)
        w == Sum(target_weights)
    IN [j \in 1..Len(target_weights) |->
           Div(target_weights[j].num * s.num * w.den,
               target_weights[j].den * s.den * w.num)]

\* The ways to send u units of one source to the targets with room left.
RECURSIVE Splits(_, _)
Splits(u, room) ==
    IF room = <<>> THEN (IF u = 0 THEN {<<>>} ELSE {})
    ELSE UNION {{<<k>> \o rest : rest \in Splits(u - k, Tail(room))} :
                   k \in 0..Min(u, Head(room))}

Least(S) == CHOOSE x \in S : \A y \in S : x <= y

\* The solver's optimum: the least total cost of a flow that moves the
\* sources' units (rows i and after) into the room left at the targets.
RECURSIVE Transport(_, _, _, _)
Transport(units, room, price, i) ==
    IF i > Len(units) THEN 0
    ELSE IF i = Len(units)
    THEN SeqSum([j \in 1..Len(room) |-> room[j] * price[<<i, j>>]])
    ELSE Least({SeqSum([j \in 1..Len(room) |-> x[j] * price[<<i, j>>]])
                   + Transport(units, [j \in 1..Len(room) |-> room[j] - x[j]],
                               price, i + 1) : x \in Splits(units[i], room)})

\* A cost of the matrix is NaN: the optimum of the solver is undefined.
HasNaN(distances) ==
    \E ij \in (1..distances.nrows) \X (1..distances.ncols) :
        distances.cell[ij] = NaN

\* compute_emd(frequencies_1, frequencies_2, distances).emd for vectors that
\* are not empty: the total cost (ot_matrix * distances).sum() of the
\* solver's flow between frequencies_1 and the rescaled frequencies_2.
compute_emd(frequencies_1, frequencies_2, distances) ==
    IF HasNaN(distances) THEN NaN
    ELSE LET target == Rescaled(frequencies_1, frequencies_2)
             d == CommonDen(frequencies_1 \o target)
             cells == (1..distances.nrows) \X (1..distances.ncols)
             c == CommonDen([n \in 1..(distances.nrows * distances.ncols) |->
                     distances.cell[<<((n - 1) \div distances.ncols) + 1,
                                      ((n - 1) % distances.ncols) + 1>>]])
             price == [ij \in cells |->
                          distances.cell[ij].num * (c \div distances.cell[ij].den)]
         IN Div(Transport(Multiples(frequencies_1, d), Multiples(target, d),
                          price, 1), d * c)

\* ------------------------------------------------ resampling comparators
Ascending(s) == \A i \in 1..(Len(s) - 1) : s[i] <= s[i + 1]

\* The representations extracted from a log, listed in ascending order.
Logs == {s \in NonEmptySeqsUpTo(Variant, MaxLog) : Ascending(s)}

\* compute_symmetric_distance_matrix from row i, column j on.
RECURSIVE SymmetricFill(_, _, _, _)
SymmetricFill(vs, m, i, j) ==
    IF i > Len(vs) THEN m
    ELSE IF j > Len(vs) THEN SymmetricFill(vs, m, i + 1, FirstColumn(i + 1))
    ELSE SymmetricFill(vs, StoreMirrored(m, i, j, cost(vs[i], vs[j])), i, j + 1)

compute_symmetric_distance_matrix(vs) ==
    SymmetricFill(vs, zeros(Len(vs), Len(vs)), 1, FirstColumn(1))

\* The index pairs at which compute_symmetric_distance_matrix calls
\* self.cost, from row i, column j on, after those of `e`.
RECURSIVE SymmetricEvaluated(_, _, _, _)
SymmetricEvaluated(vs, e, i, j) ==
    IF i > Len(vs) THEN e
    ELSE IF j > Len(vs) THEN SymmetricEvaluated(vs, e, i + 1, FirstColumn(i + 1))
    ELSE SymmetricEvaluated(vs, Append(e, <<i, j>>), i, j + 1)

\* dists.select(Axis(0), rows)
select_rows(d, rows) ==
    from_shape_fn(Len(rows), d.ncols,
                  [ab \in (1..Len(rows)) \X (1..d.ncols) |->
                      d.cell[<<rows[ab[1]], ab[2]>>]])

\* A generator that goes on from where the previous call left it.
KeepGenerator(s, previous) == [seed |-> s, drawn |-> previous.drawn]

\* StdRng::seed_from_u64(s): a new generator, whatever `previous` produced.
seed_from_u64(s, previous) == [seed |-> s, drawn |-> 0]

\* What a seeded generator produces as its n-th number below m (both
\* counted from 1): a fixed function of the seed that stands for StdRng.
Generated(g, n, m) == (((g.seed + 1) * (g.drawn + n) + g.seed) % m) + 1

\* A sample that takes nothing from the generator: the first variant each time.
SampleOfFirstVariant(g, size, m) == [i \in 1..size |-> 1]

\* sampler.by_ref().take(resample_size) on a seeded generator: indices
\* (from 1) into the m variants of the reference.
SeededSample(g, size, m) == [i \in 1..size |-> Generated(g, i, m)]

\* A copy of position j into position i that leaves position j as it was.
Overwritten(a, i, j) == [a EXCEPT ![i] = a[j]]

\* self.swap(i, j) of partial_shuffle
Swapped(a, i, j) == [a EXCEPT ![i] = a[j], ![j] = a[i]]

\* partial_shuffle: for each position from the last down to `last_kept`
\* + 1, swap it with a random position not after it.
RECURSIVE PartialShuffle(_, _, _)
PartialShuffle(arrangements, position_, last_kept) ==
    IF position_ <= last_kept THEN arrangements
    ELSE PartialShuffle({Swapped(a, position_, j) :
                            a \in arrangements, j \in 1..position_},
                        position_ - 1, last_kept)

\* The arrangements sample.partial_shuffle(&mut rng, amount) can leave.
partial_shuffle(sample, amount) ==
    PartialShuffle({sample}, Len(sample),
                   IF amount >= Len(sample) THEN 0 ELSE Len(sample) - amount)

\* The same on a seeded generator g, n being the next number it produces.
RECURSIVE SeededShuffle(_, _, _, _, _)
SeededShuffle(a, position_, last_kept, g, n) ==
    IF position_ <= last_kept THEN a
    ELSE SeededShuffle(Swapped(a, position_, Generated(g, n, position_)),
                       position_ - 1, last_kept, g, n + 1)

seeded_partial_shuffle(sample, amount, g) ==
    SeededShuffle(sample, Len(sample),
                  IF amount >= Len(sample) THEN 0 ELSE Len(sample) - amount,
                  g, 1)

\* population_indices_to_variant_indices
VariantIndices(source, b_1, b_2) ==
    [n \in 1..(Len(b_1) + Len(b_2)) |-> position(source, (b_1 \o b_2)[n])]

\* .map(index -> variant index).counts().into_iter()
\*     .map(|(k, v)| (k, v as f64 / behavior_1.len() as f64)).collect()
\* `order` is the order in which the HashMap of counts is iterated.
translated_sample(indices, to_variant, order, divisor) ==
    LET translated == [i \in 1..Len(indices) |-> to_variant[indices[i]]]
        c == counts(translated)
    IN from_iter([i \in 1..Len(order) |-> <<order[i], Div(c[order[i]], divisor)>>])

\* The count of values not below the observed one.
CountNotBelow(values, observed) ==
    Cardinality({i \in 1..Len(values) : FLeq(observed, values[i])})

\* filter(|emd| **emd > logs_emd).collect_vec().len()
CountGreater(values, observed) ==
    Cardinality({i \in 1..Len(values) : FLess(observed, values[i])})

\* ... .len() as f64 / distribution_size as f64
PValue(values, observed, size) == Div(CountGreater(values, observed), size)

\* compute_emd(frequencies_1, frequencies_2, distances) as it is called on
\* two languages whose variants are indices into `source` (or the variants
\* themselves, with source = <<>>).
EmdCall(language_1, language_2, source, distances) ==
    LET Meant(v) == IF source = <<>> THEN v ELSE source[v]
    IN [rows |-> [i \in 1..Len(language_1.variants) |-> Meant(language_1.variants[i])],
        columns |-> [j \in 1..Len(language_2.variants) |-> Meant(language_2.variants[j])],
        frequencies_1 |-> language_1.frequencies,
        frequencies_2 |-> language_2.frequencies,
        distances |-> distances]

\* compare(log_1, log_2, [resample_size,] distribution_size, seed) of a
\* control-flow comparator, after extract_representations.
InitTest ==
    /\ component = "resampling"
    /\ IdlePrep
    /\ IdleEmd
    /\ IdleLang
    /\ IdleLev
    /\ IdleBin
    /\ IdlePct
    /\ cost_fn = ControlFlowCost
    /\ variants = <<>>
    /\ mat = NoMatrix
    /\ mi = 1
    /\ mj = 1
    /\ evaluated = <<>>
    /\ dists = NoMatrix
    /\ pc = "start"
    /\ behavior_1 \in Logs
    /\ behavior_2 \in Logs
    /\ Len(behavior_1) + Len(behavior_2) <= MaxPool
    /\ stoch_lang_1 = NoLanguage
    /\ stoch_lang_2 = NoLanguage
    /\ log_1_log_2_distances = NoMatrix
    /\ comparator \in {"bootstrap", "permutation"}
    /\ resample_size \in (IF comparator = "bootstrap" THEN 1..MaxResample ELSE {0})
    /\ seed \in {NoSeed} \cup (0..(MaxSeed - 1))
    /\ distribution_size \in 0..(IF seed = NoSeed THEN MaxDist ELSE MaxDist + 1)
    /\ run = 1
    /\ rng = from_entropy
    /\ samples = <<>>
    /\ logs_emd = NaN
    /\ emds = <<>>
    /\ pvalue = NaN
    /\ sample_1 = <<>>
    /\ sample_2 = <<>>
    /\ first_result = NoResult
    /\ emd_call = NoCall

\* solve().unwrap() on costs holding a NaN: the solver may return an error,
\* and then compute_emd panics, or a flow whose cost is NaN.
SolverMayFail(distances) == IF HasNaN(distances) THEN BOOLEAN ELSE {FALSE}

\* A new generator for this call.
NewGenerator == IF seed = NoSeed THEN from_entropy ELSE seed_from_u64(seed, rng)

\* BootstrapTestComparator::compare up to logs_emd, and the distance
\* matrix of bootstrap_emd_population.
BootstrapBaseline ==
    /\ component = "resampling"
    /\ comparator = "bootstrap"
    /\ pc = "start"
    /\ \E l_1 \in {from_items(behavior_1, order_1) :
                       order_1 \in Enumerations(Range(behavior_1))},
          l_2 \in {from_items(behavior_2, order_2) :
                       order_2 \in Enumerations(Range(behavior_2))} :
        \E d \in {compute_distance_matrix(l_1.variants, l_2.variants)} :
           /\ stoch_lang_1' = l_1
           /\ stoch_lang_2' = l_2
           /\ log_1_log_2_distances' = d
           /\ mat' = compute_distance_matrix(l_1.variants, l_1.variants)
           /\ emd_call' = EmdCall(l_1, l_2, <<>>, d)
           /\ \E failed \in SolverMayFail(d) :
                IF failed
                THEN pc' = "panicked" /\ logs_emd' = logs_emd
                ELSE /\ pc' = "resampling"
                     /\ logs_emd' = compute_emd(l_1.frequencies, l_2.frequencies, d)
    /\ rng' = NewGenerator
    /\ UNCHANGED <<component, langVars, levVars, binVars, pctVars, cost_fn,
                   variants, mi, mj, evaluated, dists, behavior_1, behavior_2,
                   comparator, resample_size, distribution_size, seed, run,
                   samples, emds, pvalue, sample_1, sample_2, first_result,
                   emdVars, prepVars>>

\* PermutationTestComparator::compare up to logs_emd.
PermutationBaseline ==
    /\ component = "resampling"
    /\ comparator = "permutation"
    /\ pc = "start"
    /\ \E combined_variants \in
              {sort(pooled) : pooled \in Enumerations(Range(behavior_1 \o behavior_2))},
          l_1 \in {from_items(behavior_1, order_1) :
                       order_1 \in Enumerations(Range(behavior_1))},
          l_2 \in {from_items(behavior_2, order_2) :
                       order_2 \in Enumerations(Range(behavior_2))} :
        \E large_distance_matrix \in {compute_symmetric_distance_matrix(combined_variants)} :
        \E d \in {project_distance_matrix(large_distance_matrix, combined_variants, l_1, l_2)} :
           /\ variants' = combined_variants
           /\ stoch_lang_1' = l_1
           /\ stoch_lang_2' = l_2
           /\ mat' = large_distance_matrix
           /\ evaluated' = SymmetricEvaluated(combined_variants, <<>>, 1, FirstColumn(1))
           /\ log_1_log_2_distances' = d
           /\ emd_call' = EmdCall(l_1, l_2, <<>>, d)
           /\ \E failed \in SolverMayFail(d) :
                IF failed
                THEN pc' = "panicked" /\ logs_emd' = logs_emd
                ELSE /\ pc' = "resampling"
                     /\ logs_emd' = compute_emd(l_1.frequencies, l_2.frequencies, d)
    /\ rng' = NewGenerator
    /\ UNCHANGED <<component, langVars, levVars, binVars, pctVars, cost_fn,
                   mi, mj, dists, behavior_1, behavior_2,
                   comparator, resample_size, distribution_size, seed, run,
                   samples, emds, pvalue, sample_1, sample_2, first_result,
                   emdVars, prepVars>>

\* One iteration of the map of bootstrap_emd_population.
BootstrapIteration ==
    /\ component = "resampling"
    /\ comparator = "bootstrap"
    /\ pc = "resampling"
    /\ Len(emds) < distribution_size
    /\ \E sample_indices \in [1..resample_size -> 1..Len(stoch_lang_1.variants)] :
        /\ seed # NoSeed =>
              sample_indices = SeededSample(rng, resample_size, Len(stoch_lang_1.variants))
        /\ \E sample_stochastic_language \in
                  {from_items(sample_indices, order) :
                      order \in Enumerations(Range(sample_indices))} :
            \E projected_costs \in {select_rows(mat, sample_stochastic_language.variants)} :
               /\ emd_call' = EmdCall(sample_stochastic_language,
                                      [stoch_lang_1 EXCEPT !.variants =
                                          [j \in 1..Len(@) |-> j]],
                                      stoch_lang_1.variants, projected_costs)
               /\ \E failed \in SolverMayFail(projected_costs) :
                  IF failed
                  THEN pc' = "panicked" /\ emds' = emds
                  ELSE /\ pc' = "iterated"
                       /\ emds' = Append(emds,
                              compute_emd(sample_stochastic_language.frequencies,
                                          stoch_lang_1.frequencies, projected_costs))
        /\ sample_1' = sample_indices
        /\ samples' = IF seed = NoSeed THEN samples ELSE Append(samples, sample_indices)
    /\ rng' = [rng EXCEPT !.drawn = IF seed = NoSeed THEN 0 ELSE @ + resample_size]
    /\ UNCHANGED <<component, langVars, levVars, binVars, pctVars, matrixVars,
                   behavior_1, behavior_2, stoch_lang_1, stoch_lang_2,
                   log_1_log_2_distances, comparator, resample_size,
                   distribution_size, seed, run, logs_emd, pvalue, sample_2,
                   first_result, emdVars, prepVars>>

\* One iteration of the map of compute_permutation_test_distribution.
PermutationIteration ==
    /\ component = "resampling"
    /\ comparator = "permutation"
    /\ pc = "resampling"
    /\ Len(emds) < distribution_size
    /\ LET sample_size == Len(behavior_1) + Len(behavior_2)
           sample == [i \in 1..sample_size |-> i]
           to_variant == VariantIndices(variants, behavior_1, behavior_2)
       IN \E shuffled \in (IF seed = NoSeed
                           THEN partial_shuffle(sample, Len(behavior_1))
                           ELSE {seeded_partial_shuffle(sample, Len(behavior_1), rng)}) :
            /\ sample_1' = SubSeq(shuffled, 1, Len(behavior_1))
            /\ sample_2' = SubSeq(shuffled, Len(behavior_1) + 1, sample_size)
            /\ \E order_1 \in Enumerations({to_variant[shuffled[i]] : i \in 1..Len(behavior_1)}),
                  order_2 \in Enumerations({to_variant[shuffled[i]] :
                                               i \in (Len(behavior_1) + 1)..sample_size}) :
                \E translated_sample_1 \in
                       {translated_sample(sample_1', to_variant, order_1, Len(behavior_1))},
                   translated_sample_2 \in
                       {translated_sample(sample_2', to_variant, order_2, Len(behavior_1))} :
                \E projected_dists \in {select2(mat, translated_sample_1.variants,
                                                translated_sample_2.variants)} :
                   /\ emd_call' = EmdCall(translated_sample_1, translated_sample_2,
                                          variants, projected_dists)
                   /\ \E failed \in SolverMayFail(projected_dists) :
                      IF failed
                      THEN pc' = "panicked" /\ emds' = emds
                      ELSE /\ pc' = "iterated"
                           /\ emds' = Append(emds,
                                  compute_emd(translated_sample_1.frequencies,
                                              translated_sample_2.frequencies,
                                              projected_dists))
    /\ rng' = [rng EXCEPT !.drawn = IF seed = NoSeed THEN 0 ELSE @ + Len(behavior_1)]
    /\ UNCHANGED <<component, langVars, levVars, binVars, pctVars, matrixVars,
                   behavior_1, behavior_2, stoch_lang_1, stoch_lang_2,
                   log_1_log_2_distances, comparator, resample_size,
                   distribution_size, seed, run, samples, logs_emd, pvalue,
                   first_result, emdVars, prepVars>>

\* The closure of an iteration returns its EMD: the sample, the languages
\* and the projected costs of the iteration are dropped.
IterationReturns ==
    /\ component = "resampling"
    /\ pc = "iterated"
    /\ pc' = "resampling"
    /\ sample_1' = <<>>
    /\ sample_2' = <<>>
    /\ emd_call' = NoCall
    /\ UNCHANGED <<component, langVars, levVars, binVars, pctVars, matrixVars,
                   behavior_1, behavior_2, stoch_lang_1, stoch_lang_2,
                   log_1_log_2_distances, comparator, resample_size,
                   distribution_size, seed, run, rng, samples, logs_emd, emds,
                   pvalue, first_result, emdVars, prepVars>>

\* extract_representations(log_1, log_2)?: an event of a log lacks its
\* activity label, and compare returns the AttributeError at once.
ExtractRepresentationsErr ==
    /\ component = "resampling"
    /\ pc = "start"
    /\ run = 1
    /\ pc' = "err"
    /\ UNCHANGED <<component, langVars, levVars, binVars, pctVars, matrixVars,
                   behavior_1, behavior_2, stoch_lang_1, stoch_lang_2,
                   log_1_log_2_distances, testVars, emdVars, prepVars>>

\* The p-value and the returned result, in both comparators.
ComputePvalue ==
    /\ component = "resampling"
    /\ pc = "resampling"
    /\ Len(emds) = distribution_size
    /\ pvalue' = PValue(emds, logs_emd, distribution_size)
    /\ pc' = "done"
    /\ UNCHANGED <<component, langVars, levVars, binVars, pctVars, matrixVars,
                   behavior_1, behavior_2, stoch_lang_1, stoch_lang_2,
                   log_1_log_2_distances, comparator, resample_size,
                   distribution_size, seed, run, rng, samples, logs_emd, emds,
                   sample_1, sample_2, first_result, emd_call, emdVars,
                   prepVars>>

\* The caller repeats a seeded bootstrap comparison with the same arguments.
CompareAgain ==
    /\ component = "resampling"
    /\ comparator = "bootstrap"
    /\ seed # NoSeed
    /\ pc = "done"
    /\ run = 1
    /\ first_result' = [logs_emd |-> logs_emd, emds |-> emds, pvalue |-> pvalue,
                        samples |-> samples]
    /\ run' = 2
    /\ pc' = "start"
    /\ stoch_lang_1' = NoLanguage
    /\ stoch_lang_2' = NoLanguage
    /\ log_1_log_2_distances' = NoMatrix
    /\ mat' = NoMatrix
    /\ logs_emd' = NaN
    /\ emds' = <<>>
    /\ pvalue' = NaN
    /\ samples' = <<>>
    /\ sample_1' = <<>>
    /\ emd_call' = NoCall
    /\ UNCHANGED <<component, langVars, levVars, binVars, pctVars, cost_fn,
                   variants, mi, mj, evaluated, dists, behavior_1, behavior_2,
                   comparator, resample_size, distribution_size, seed, rng,
                   sample_2, emdVars, prepVars>>

NextTest ==
    \/ BootstrapBaseline
    \/ PermutationBaseline
    \/ BootstrapIteration
    \/ PermutationIteration
    \/ IterationReturns
    \/ ExtractRepresentationsErr
    \/ ComputePvalue
    \/ CompareAgain

SpecTest == InitTest /\ [][NextTest]_vars

\* -------------------------------------------------- the wrapper's emd()
\* The weights handed to emd().
WeightChoices == {Div(0, 1), Div(1, 2), Div(1, 1)}

\* The values of `iterations` handed to emd(); EmdSolver::new passes 10000.
IterationChoices == {-1, 0, 1, 10000}

\* The result codes of the network simplex: infeasible, optimal, unbounded,
\* iteration limit reached.
ResultCodes == 0..3

\* impl From<i32> for FastTransportError
FastTransportError_from(code) ==
    IF code = 0 THEN "Infeasible"
    ELSE IF code = 2 THEN "Unbounded"
    ELSE IF code = 3 THEN "MaxIterReached"
    ELSE "panic"

\* A check of the rows of the cost matrix only.
CheckRowsOnly(a, b, c) ==
    IF c.nrows # Len(a)
    THEN [kind |-> "WeightDimensionError",
          args |-> <<Len(a), Len(b), c.nrows, c.ncols>>, emd |-> NaN, code |-> -1]
    ELSE NoEmdResult

\* check_emd_input_shapes: the error it returns, if any.
check_emd_input_shapes(a, b, c) ==
    IF c.nrows # Len(a) \/ c.ncols # Len(b)
    THEN [kind |-> "WeightDimensionError",
          args |-> <<Len(a), Len(b), c.nrows, c.ncols>>, emd |-> NaN, code |-> -1]
    ELSE NoEmdResult

InitEmd ==
    /\ component = "emd"
    /\ IdlePrep
    /\ IdleLang
    /\ IdleMatrix
    /\ IdleCompare
    /\ IdleLev
    /\ IdleBin
    /\ IdlePct
    /\ IdleTest
    /\ emd_pc = "called"
    /\ emd_source \in SeqsUpTo(WeightChoices, MaxVec)
    /\ emd_target \in SeqsUpTo(WeightChoices, MaxVec)
    /\ \E n \in 0..MaxVec, m \in 0..MaxVec :
          emd_costs = from_shape_fn(n, m, [ij \in (1..n) \X (1..m) |->
                                              Div(Abs(ij[1] - ij[2]), 1)])
    /\ emd_iterations \in IterationChoices
    /\ emd_given = [source |-> emd_source, target |-> emd_target,
                    costs |-> emd_costs]
    /\ emd_result = NoEmdResult

\* emd() up to the call of c_emd_wrapper: the two checks, then the rescaling
\* of the target weights in place.
EmdPrepare ==
    /\ component = "emd"
    /\ emd_pc = "called"
    /\ IF emd_iterations <= 0
       THEN /\ emd_result' = [kind |-> "InvalidIterations",
                              args |-> <<emd_iterations>>, emd |-> NaN,
                              code |-> -1]
            /\ emd_pc' = "returned"
            /\ emd_target' = emd_target
       ELSE IF check_emd_input_shapes(emd_source, emd_target, emd_costs) # NoEmdResult
       THEN /\ emd_result' = check_emd_input_shapes(emd_source, emd_target, emd_costs)
            /\ emd_pc' = "returned"
            /\ emd_target' = emd_target
       ELSE /\ emd_target' = Rescaled(emd_source, emd_target)
            /\ emd_pc' = "solving"
            /\ emd_result' = emd_result
    /\ UNCHANGED <<component, langVars, matrixVars, compareVars, levVars,
                   binVars, pctVars, testVars, emd_given, emd_source,
                   emd_costs, emd_iterations, prepVars>>

\* c_emd_wrapper returns the solver's result code, and emd() its Result.
EmdSolve ==
    /\ component = "emd"
    /\ emd_pc = "solving"
    /\ \E code \in ResultCodes :
          emd_result' =
             IF code = 1
             THEN [kind |-> "Ok", args |-> <<>>, code |-> code,
                   emd |-> IF Sum(emd_source) = Div(0, 1) \/ Sum(emd_given.target) = Div(0, 1)
                           THEN NaN
                           ELSE compute_emd(emd_source, emd_given.target, emd_costs)]
             ELSE [kind |-> FastTransportError_from(code), args |-> <<>>,
                   code |-> code, emd |-> NaN]
    /\ emd_pc' = "returned"
    /\ UNCHANGED <<component, langVars, matrixVars, compareVars, levVars,
                   binVars, pctVars, testVars, emd_given, emd_source,
                   emd_target, emd_costs, emd_iterations, prepVars>>

NextEmd ==
    \/ EmdPrepare
    \/ EmdSolve

SpecEmd == InitEmd /\ [][NextEmd]_vars

\* ------------------------------------------- ensure_start_timestamp_key
\* An event: its activity, its lifecycle transition ("none" when the
\* attribute is missing, "other" for one that is neither start nor
\* complete), its instance id and start_timestamp (0 when missing) and its
\* timestamp.
Lifecycles == {"start", "complete", "other", "none"}

\* infer_lifecycle_information
infer_lifecycle_information(trace) ==
    [n \in 1..Len(trace) |->
        IF trace[n].lifecycle = "none"
        THEN [trace[n] EXCEPT !.lifecycle = "complete"]
        ELSE trace[n]]

\* pending_ids.pop_back(): the start that began last.
PopBack(pending_ids) == pending_ids[Len(pending_ids)]

\* pending_ids.pop_front()
PopFront(pending_ids) == pending_ids[1]

\* What pop leaves: by position, everything but the value popped.
Remaining(pending_ids, popped) ==
    SelectSeq(pending_ids, LAMBDA id : id # popped)

\* The loop of infer_event_instance_id from event n on.
RECURSIVE InferInstanceIds(_, _, _, _)
InferInstanceIds(events, n, pending_instance_ids, current_id) ==
    IF n > Len(events) THEN events
    ELSE LET evt == events[n]
             pending_ids == pending_instance_ids[evt.activity]
         IN IF evt.lifecycle = "complete"
            THEN IF pending_ids # <<>>
                 THEN InferInstanceIds(
                         [events EXCEPT ![n].instance_id = PopFront(pending_ids)],
                         n + 1,
                         [pending_instance_ids EXCEPT ![evt.activity] =
                             Remaining(pending_ids, PopFront(pending_ids))],
                         current_id)
                 ELSE InferInstanceIds(
                         [events EXCEPT ![n].instance_id = current_id + 1],
                         n + 1, pending_instance_ids, current_id + 1)
            ELSE IF evt.lifecycle = "start"
            THEN InferInstanceIds(
                    [events EXCEPT ![n].instance_id = current_id + 1],
                    n + 1,
                    [pending_instance_ids EXCEPT ![evt.activity] =
                        Append(pending_ids, current_id + 1)],
                    current_id + 1)
            ELSE InferInstanceIds(events, n + 1, pending_instance_ids, current_id)

infer_event_instance_id(trace) ==
    InferInstanceIds(trace, 1, [a \in Activities |-> <<>>], 0)

\* The closure handed to retain_mut_err, applied from event n on: `seen` are
\* the events so far as the closure left them, `retain` its answers, and
\* timestamps[id] is 0 for an id that is not in the map.
RECURSIVE FoldEvents(_, _, _, _, _)
FoldEvents(events, n, timestamps, seen, retain) ==
    IF n > Len(events)
    THEN [ok |-> TRUE,
          events |-> LET kept == {k \in 1..Len(seen) : retain[k]}
                         nth(i) == CHOOSE k \in kept :
                                      Cardinality({x \in kept : x < k}) = i - 1
                     IN [i \in 1..Cardinality(kept) |-> seen[nth(i)]]]
    ELSE LET event == events[n]
             id == event.instance_id
         IN IF id = 0
            THEN [ok |-> FALSE, events |-> seen \o SubSeq(events, n, Len(events))]
            ELSE IF event.lifecycle = "start"
            THEN FoldEvents(events, n + 1,
                            [timestamps EXCEPT ![id] = event.timestamp],
                            Append(seen, event), Append(retain, FALSE))
            ELSE IF event.lifecycle = "complete"
            THEN FoldEvents(events, n + 1,
                            [timestamps EXCEPT ![id] = 0],
                            Append(seen,
                                   [event EXCEPT !.start_timestamp =
                                       IF timestamps[id] # 0 THEN timestamps[id]
                                       ELSE event.timestamp]),
                            Append(retain, TRUE))
            ELSE FoldEvents(events, n + 1, timestamps, Append(seen, event),
                            Append(retain, FALSE))

\* fold_instance_id_to_start_timestamps: [ok, events].
fold_instance_id_to_start_timestamps(trace) ==
    FoldEvents(trace, 1, [id \in 1..(Len(trace) + MaxEvents) |-> 0], <<>>, <<>>)

\* .flat_map(|trace| trace.events.iter())
\*     .all(|evt| evt.attributes.get_by_key(key).is_some())
all_events_have(log, key) ==
    \A k \in 1..Len(log) : \A n \in 1..Len(log[k]) :
        IF key = "lifecycle" THEN log[k][n].lifecycle # "none"
        ELSE log[k][n][key] # 0

\* try_for_each(fold_instance_id_to_start_timestamps) from trace k on.
RECURSIVE FoldLog(_, _)
FoldLog(log, k) ==
    IF k > Len(log) THEN [ok |-> TRUE, log |-> log]
    ELSE LET folded == fold_instance_id_to_start_timestamps(log[k])
         IN IF folded.ok
            THEN FoldLog([log EXCEPT ![k] = folded.events], k + 1)
            ELSE [ok |-> FALSE, log |-> [log EXCEPT ![k] = folded.events]]

\* ensure_start_timestamp_key: [ok, log].
ensure_start_timestamp_key(log) ==
    IF all_events_have(log, "start_timestamp")
    THEN [ok |-> TRUE, log |-> log]
    ELSE LET with_lifecycle ==
                 IF all_events_have(log, "lifecycle") THEN log
                 ELSE [k \in 1..Len(log) |-> infer_lifecycle_information(log[k])]
             with_instance_id ==
                 IF all_events_have(with_lifecycle, "instance_id")
                 THEN with_lifecycle
                 ELSE [k \in 1..Len(log) |-> infer_event_instance_id(with_lifecycle[k])]
         IN FoldLog(with_instance_id, 1)

\* The events of a log, before their timestamps are set.
EventChoices ==
    [activity : Activities, lifecycle : Lifecycles, instance_id : 0..2,
     timestamp : {0}, start_timestamp : {0}]

\* A start_timestamp that is no event's timestamp.
OldStartTimestamp == MaxEvents + 1

\* The n-th event of the log happens at time n.
Timed(events, first, with_start) ==
    [n \in 1..Len(events) |->
        [events[n] EXCEPT !.timestamp = first + n,
                          !.start_timestamp =
                              IF with_start = "all" \/ (with_start = "first" /\ first + n = 1)
                              THEN OldStartTimestamp ELSE 0]]

InitPrep ==
    /\ component = "preparation"
    /\ IdleLang
    /\ IdleMatrix
    /\ IdleCompare
    /\ IdleLev
    /\ IdleBin
    /\ IdlePct
    /\ IdleTest
    /\ IdleEmd
    /\ prep_pc = "called"
    /\ \E events \in SeqsUpTo(EventChoices, MaxEvents),
          with_start \in {"all", "first", "none"} :
          \/ prep_given = <<Timed(events, 0, with_start)>>
          \/ \E cut \in 1..(Len(events) - 1) :
                /\ Len(events) < MaxEvents
                /\ prep_given =
                      <<Timed(SubSeq(events, 1, cut), 0, with_start),
                        Timed(SubSeq(events, cut + 1, Len(events)), cut, with_start)>>
    /\ prep_log = prep_given
    /\ prep_result = "none"

EnsureStartTimestampKey ==
    /\ component = "preparation"
    /\ prep_pc = "called"
    /\ \E returned \in {ensure_start_timestamp_key(prep_log)} :
         /\ prep_log' = returned.log
         /\ prep_result' = IF returned.ok THEN "Ok" ELSE "Err"
    /\ prep_pc' = "returned"
    /\ UNCHANGED <<component, langVars, matrixVars, compareVars, levVars,
                   binVars, pctVars, testVars, emdVars, prep_given>>

NextPrep == EnsureStartTimestampKey

SpecPrep == InitPrep /\ [][NextPrep]_vars

InitLang ==
    /\ component = "language"
    /\ IdlePrep
    /\ IdleEmd
    /\ IdleTest
    /\ IdlePct
    /\ IdleMatrix
    /\ IdleCompare
    /\ IdleLev
    /\ IdleBin
    /\ items \in SeqsUpTo(Variant, MaxItems)
    /\ calls = 0
    /\ lang = NoLanguage
    /\ prev_items = <<>>
    /\ prev_lang = NoLanguage

\* A caller passes the same occurrences, in any order, to from_items.
FromItems ==
    /\ component = "language"
    /\ calls < 2
    /\ \E arg \in Rearrangements(items) :
       \E order \in Enumerations(Range(arg)) :
          /\ items' = arg
          /\ lang' = from_items(arg, order)
          /\ prev_items' = items
          /\ prev_lang' = lang
    /\ calls' = calls + 1
    /\ UNCHANGED <<component, matrixVars, compareVars, levVars, binVars, pctVars,
                   testVars, emdVars, prepVars>>

NextLang == FromItems

\* A direct call of compute_symmetric_distance_matrix on any list.
InitMatrix ==
    /\ component = "matrix"
    /\ IdlePrep
    /\ IdleEmd
    /\ IdleTest
    /\ IdlePct
    /\ IdleLang
    /\ IdleLev
    /\ IdleBin
    /\ cost_fn \in CostFns
    /\ variants \in SeqsUpTo(Variant, MaxMatrix)
    /\ mat = zeros(Len(variants), Len(variants))
    /\ mi = 1
    /\ mj = 1
    /\ evaluated = <<>>
    /\ dists = NoMatrix
    /\ pc = "matrix"
    /\ behavior_1 = <<>>
    /\ behavior_2 = <<>>
    /\ stoch_lang_1 = NoLanguage
    /\ stoch_lang_2 = NoLanguage
    /\ log_1_log_2_distances = NoMatrix

NextMatrix == SymmetricStep \/ ComputeDistanceMatrix

SpecMatrix == InitMatrix /\ [][NextMatrix]_vars

CostSymmetric == \A a, b \in Variant : cost(a, b) = cost(b, a)

\* C3: for every variant list v and every symmetric cost function,
\* compute_symmetric_distance_matrix(v) equals compute_distance_matrix(v, v)
\* element by element: the same shape |v| x |v| and entry (i, j) equal to
\* cost(v[i], v[j]).
C3_SymmetricEqualsFull ==
    (/\ component = "matrix"
     /\ MatrixDone
     /\ CostSymmetric
     /\ (dists # NoMatrix \/ variants = <<>>)) =>
        /\ mat.nrows = Len(variants)
        /\ mat.ncols = Len(variants)
        /\ mat.nrows = dists.nrows
        /\ mat.ncols = dists.ncols
        /\ \A i, j \in 1..Len(variants) :
              /\ mat.cell[<<i, j>>] = dists.cell[<<i, j>>]
              /\ mat.cell[<<i, j>>] = cost(variants[i], variants[j])

\* Both matrices were computed for three variants under a symmetric cost
\* function that is not constant.
C3_Witness ==
    /\ component = "matrix"
    /\ MatrixDone
    /\ CostSymmetric
    /\ dists # NoMatrix
    /\ Len(variants) = 3
    /\ \E i, j \in 1..3 : mat.cell[<<i, j>>] # mat.cell[<<1, 1>>]

\* C4: compute_symmetric_distance_matrix over n variants evaluates the cost
\* function exactly once per pair (i, j) with i <= j, n(n+1)/2 times in
\* all, never for i > j, and the matrix it returns satisfies
\* matrix[i][j] = matrix[j][i] for every cost function, symmetric or not.
C4_UpperTriangleOnce ==
    (component = "matrix") =>
        /\ \A k \in 1..Len(evaluated) : evaluated[k][1] <= evaluated[k][2]
        /\ \A k, l \in 1..Len(evaluated) : k # l => evaluated[k] # evaluated[l]
        /\ MatrixDone =>
              /\ \A i, j \in 1..Len(variants) :
                    i <= j => \E k \in 1..Len(evaluated) : evaluated[k] = <<i, j>>
              /\ 2 * Len(evaluated) = Len(variants) * (Len(variants) + 1)
              /\ \A i, j \in 1..Len(variants) :
                    mat.cell[<<i, j>>] = mat.cell[<<j, i>>]

\* The matrix of three variants was finished under a cost function that
\* gives two of them different costs in the two directions.
C4_Witness ==
    /\ component = "matrix"
    /\ MatrixDone
    /\ Len(variants) = 3
    /\ Len(evaluated) = 6
    /\ \E i, j \in 1..3 :
          cost(variants[i], variants[j]) # cost(variants[j], variants[i])

\* C5: project_distance_matrix(full, source, pop_1, pop_2) has shape
\* |pop_1.variants| x |pop_2.variants| and entry (a, b) equal to full[p][q]
\* for the positions p, q of pop_1.variants[a] and pop_2.variants[b] in
\* source; in the permutation comparator every position lookup succeeds and,
\* for a symmetric cost, entry (a, b) is cost(log-1 variant a, log-2 variant b).
C5_ProjectionSelectsPositions ==
    (component = "permutation") =>
        /\ pc # "panicked"
        /\ pc = "projected" =>
              /\ log_1_log_2_distances.nrows = Len(stoch_lang_1.variants)
              /\ log_1_log_2_distances.ncols = Len(stoch_lang_2.variants)
              /\ \A a \in 1..Len(stoch_lang_1.variants) :
                 \A b \in 1..Len(stoch_lang_2.variants) :
                    /\ \E p, q \in 1..Len(variants) :
                          /\ variants[p] = stoch_lang_1.variants[a]
                          /\ variants[q] = stoch_lang_2.variants[b]
                    /\ \A p, q \in 1..Len(variants) :
                          (/\ variants[p] = stoch_lang_1.variants[a]
                           /\ variants[q] = stoch_lang_2.variants[b]) =>
                             log_1_log_2_distances.cell[<<a, b>>] = mat.cell[<<p, q>>]
                    /\ CostSymmetric =>
                          log_1_log_2_distances.cell[<<a, b>>]
                             = cost(stoch_lang_1.variants[a], stoch_lang_2.variants[b])

\* The pooled matrix of three variants was projected onto two logs with
\* different variants under the symmetric cost |a - b|.
C5_Witness ==
    /\ component = "permutation"
    /\ pc = "projected"
    /\ CostSymmetric
    /\ Len(variants) = 3
    /\ stoch_lang_1.variants # stoch_lang_2.variants
    /\ Len(stoch_lang_1.variants) = 2
    /\ \E a \in 1..2 : position(variants, stoch_lang_1.variants[a]) # a
    /\ \E a \in 1..log_1_log_2_distances.nrows :
       \E b \in 1..log_1_log_2_distances.ncols :
          log_1_log_2_distances.cell[<<a, b>>] = Div(2, 1)

SpecLang == InitLang /\ [][NextLang]_vars

RECURSIVE FSum(_)
FSum(fs) ==
    IF fs = <<>> THEN Div(0, 1)
    ELSE LET x == Head(fs)
             y == FSum(Tail(fs))
         IN Div(x.num * y.den + y.num * x.den, x.den * y.den)

\* C1: for every non-empty list of items the language returned by from_items
\* has no duplicate variants, as many frequencies as variants, only positive
\* frequencies, and frequencies that sum to 1 (the counts sum to the number
\* of items).
C1_LanguageWellFormed ==
    (component = "language" /\ calls >= 1 /\ items # <<>>) =>
        /\ Len(lang.variants) = Len(lang.frequencies)
        /\ \A i, j \in 1..Len(lang.variants) :
              i # j => lang.variants[i] # lang.variants[j]
        /\ \A i \in 1..Len(lang.frequencies) :
              /\ IsNumber(lang.frequencies[i])
              /\ lang.frequencies[i].num > 0
        /\ FSum(lang.frequencies) = Div(1, 1)
        /\ SeqSum([i \in 1..Len(lang.frequencies) |->
                     (lang.frequencies[i].num * Len(items))
                        \div lang.frequencies[i].den]) = Len(items)

\* A list with a repeated item and at least two distinct items was counted.
C1_Witness ==
    /\ component = "language"
    /\ calls >= 1
    /\ Len(items) > Cardinality(Range(items))
    /\ Len(lang.variants) >= 2
    /\ \E i \in 1..Len(lang.frequencies) : lang.frequencies[i] = Div(2, Len(items))

IsRearrangement(s, t) ==
    /\ Len(s) = Len(t)
    /\ \A x \in Range(s) \cup Range(t) : Occurrences(s, x) = Occurrences(t, x)

\* C2: from_items is canonical: the variants are strictly ascending,
\* frequencies[i] is the number of occurrences of variants[i] divided by the
\* number of items, and two calls on rearrangements of the same list return
\* identical variants and frequencies, whatever the hash map's iteration
\* order was.
C2_LanguageCanonical ==
    (component = "language" /\ calls >= 1) =>
        /\ \A i \in 1..(Len(lang.variants) - 1) :
              lang.variants[i] < lang.variants[i + 1]
        /\ \A i \in 1..Len(lang.variants) :
              lang.frequencies[i]
                 = Div(Occurrences(items, lang.variants[i]), Len(items))
        /\ (calls >= 2 /\ IsRearrangement(prev_items, items)) =>
              /\ prev_lang.variants = lang.variants
              /\ prev_lang.frequencies = lang.frequencies

\* Two calls were made on differently ordered lists, the later one on a list
\* that is not in ascending order.
C2_Witness ==
    /\ component = "language"
    /\ calls >= 2
    /\ prev_items # items
    /\ Len(lang.variants) >= 2
    /\ \E i \in 1..(Len(items) - 1) : items[i] > items[i + 1]

LevTokens == Range(trace_1) \cup Range(trace_2)

\* The per-token costs are symmetric on the tokens of the two sequences.
TokenCostsSymmetric ==
    \A x, y \in LevTokens :
        /\ substitution_cost(x, y) = substitution_cost(y, x)
        /\ insertion_cost(x) = deletion_cost(x)

\* C6: with symmetric per-token costs the weighted edit distance of (a, b)
\* is that of (b, a), and so is the post-normalized distance (the two calls
\* return the same value; for two empty sequences both return 0.0 / 0.0).
C6_DistanceSymmetric ==
    (component = "levenshtein" /\ lev_calls = 2 /\ TokenCostsSymmetric) =>
        /\ distance = swapped_distance
        /\ normalized = swapped_normalized

\* Both orders were computed for two different (activity, bin) sequences of
\* different lengths, and the DP ran.
C6_Witness ==
    /\ component = "levenshtein"
    /\ lev_calls = 2
    /\ token_type = "timed"
    /\ Len(trace_1) = 1
    /\ Len(trace_2) = 2
    /\ dp_matrix # <<>>
    /\ distance % 2 = 1
    /\ TokenCostsSymmetric

\* C7: identical sequences, the empty one included, have distance 0 without
\* the DP being run, and their post-normalized distance is the number 0.
C7_IdenticalIsZero ==
    (component = "levenshtein" /\ lev_calls >= 1 /\ trace_1 = trace_2) =>
        /\ distance = 0
        /\ dp_matrix = <<>>
        /\ normalized = Div(0, 1)

\* Every insertion, deletion and substitution cost among the tokens of the
\* two sequences lies in [0, 1].
TokenCostsBounded ==
    \A x, y \in LevTokens :
        /\ insertion_cost(x) \in 0..CostScale
        /\ deletion_cost(x) \in 0..CostScale
        /\ substitution_cost(x, y) \in 0..CostScale

\* C8: for sequences (at least one non-empty) whose token costs all lie in
\* [0, 1], the post-normalized distance lies in [0, 1]: the raw distance
\* never exceeds max(len(a), len(b)).
C8_NormalizedBounded ==
    (/\ component = "levenshtein"
     /\ lev_calls >= 1
     /\ (trace_1 # <<>> \/ trace_2 # <<>>)
     /\ TokenCostsBounded) =>
        /\ IsNumber(normalized)
        /\ FLeq(Div(0, 1), normalized)
        /\ FLeq(normalized, Div(1, 1))
        /\ distance <= CostScale * Max(Len(trace_1), Len(trace_2))

\* (activity, bin) tokens with costs in [0, 1], one of them in bin 1, came
\* within 1/8 of the bound after the DP ran.
C8_Witness ==
    /\ component = "levenshtein"
    /\ lev_calls >= 1
    /\ token_type = "timed"
    /\ TokenCostsBounded
    /\ Len(trace_1) = 2
    /\ Len(trace_2) = 1
    /\ \E x \in LevTokens : x[2] = 1
    /\ dp_matrix # <<>>
    /\ normalized = Div(7, 8)

\* The total costs of all edit scripts that turn a into b, each script
\* deleting or substituting every token of a and inserting or substituting
\* every token of b, from left to right.
RECURSIVE ScriptCosts(_, _)
ScriptCosts(a, b) ==
    IF a = <<>> /\ b = <<>> THEN {0}
    ELSE (IF a = <<>> THEN {}
          ELSE {deletion_cost(Head(a)) + c : c \in ScriptCosts(Tail(a), b)})
         \cup
         (IF b = <<>> THEN {}
          ELSE {insertion_cost(Head(b)) + c : c \in ScriptCosts(a, Tail(b))})
         \cup
         (IF a = <<>> \/ b = <<>> THEN {}
          ELSE {substitution_cost(Head(a), Head(b)) + c :
                   c \in ScriptCosts(Tail(a), Tail(b))})

MinimumOf(S) == CHOOSE x \in S : \A y \in S : x <= y

\* C9: weighted_levenshtein_distance(a, b) is the minimum total cost over
\* all edit scripts turning a into b: 3 for kitten/sitting and for
\* Saturday/Sunday, 2.0 for the test's pair of (activity, bin) traces; the
\* post-normalized value is that optimum divided by max(len(a), len(b)).
C9_DistanceIsOptimum ==
    (component = "levenshtein" /\ lev_calls >= 1) =>
        /\ \A totals \in {ScriptCosts(trace_1, trace_2)} :
              \A optimum \in {MinimumOf(totals)} :
                 /\ distance = optimum
                 /\ normalized = Div(optimum, CostScale *
                                     Max(Len(trace_1), Len(trace_2)))
        /\ (trace_1 = TestKitten /\ trace_2 = TestSitting) =>
              (distance = 3 * CostScale /\ normalized = Div(3, 7))
        /\ (trace_1 = TestSaturday /\ trace_2 = TestSunday) =>
              (distance = 3 * CostScale /\ normalized = Div(3, 8))
        /\ (trace_1 = TestTimed1 /\ trace_2 = TestTimed2) =>
              (distance = 2 * CostScale /\ normalized = Div(2, 4))

\* The distance of the test's two (activity, bin) traces was computed.
C9_Witness ==
    /\ component = "levenshtein"
    /\ lev_calls >= 1
    /\ token_type = "timed"
    /\ trace_1 = TestTimed1
    /\ trace_2 = TestTimed2
    /\ distance = 2 * CostScale

\* usize_cost as f64 / 2.0, in units of 1 / CostScale.
ScaledBinDistance(tok, other) ==
    (CostScale \div 2) * (IF tok[2] > other[2] THEN tok[2] - other[2]
                          ELSE other[2] - tok[2])

\* C10: for every pair of (activity, bin) tokens the configured binner
\* produces, for any number of bins k, the bin-distance term of the
\* substitution cost is scaled to [0, 1], and the substitution cost
\* 0.5 * (activity mismatch + scaled bin distance) lies in [0, 1].
C10_BinDistanceScaled ==
    (component = "binning" /\ bin_pc = "binned") =>
        \A i \in 1..Len(tokens), j \in 1..Len(tokens) :
           /\ tokens[i][2] \in 0..Max(num_bins(args) - 1, 0)
           /\ ScaledBinDistance(tokens[i], tokens[j]) \in 0..CostScale
           /\ Timed_substitution_cost(tokens[i], tokens[j]) \in 0..CostScale

\* C11: a trained percentile binner has 3 bins; bin(x) is 0 below the lower
\* boundary, 2 above the upper boundary and 1 otherwise, a value equal to a
\* boundary included; repeated calls on the same value return the same bin.
C11_PercentileBins ==
    (component = "percentile" /\ pct_bins # <<>>) =>
        /\ OuterPercentileBinner_num_bins = 3
        /\ \A i \in 1..Len(pct_bins) :
              /\ pct_bins[i] \in 0..2
              /\ pct_bins[i] = pct_bins[1]
              /\ pct_bins[i] =
                    (IF FLess(Div(pct_value, 1), lower_boundary) THEN 0
                     ELSE IF FLess(upper_boundary, Div(pct_value, 1)) THEN 2
                     ELSE 1)

MinOf(s) == CHOOSE x \in Range(s) : \A y \in Range(s) : x <= y

MaxOf(s) == CHOOSE x \in Range(s) : \A y \in Range(s) : y <= x

\* C12: OuterPercentileBinner::new panics on empty data and on a percentile
\* outside [0, 100]; for any other input it returns boundaries that lie
\* between the least and the greatest data value.
C12_NewRejectsDegenerate ==
    (component = "percentile" /\ pct_pc # "untrained") =>
        IF pct_data = <<>> \/ pct_args < 0 \/ pct_args > 100
        THEN pct_pc = "panicked"
        ELSE /\ pct_pc = "trained"
             /\ \A boundary \in {lower_boundary, upper_boundary} :
                   /\ IsNumber(boundary)
                   /\ FLeq(Div(MinOf(pct_data), 1), boundary)
                   /\ FLeq(boundary, Div(MaxOf(pct_data), 1))

\* A binner whose lower boundary was interpolated between two data values.
C12_Witness ==
    /\ component = "percentile"
    /\ pct_pc = "trained"
    /\ Len(pct_data) = 3
    /\ pct_args = 25
    /\ lower_boundary.den = 2
    /\ FLess(lower_boundary, upper_boundary)

Trained == component = "binning" /\ bin_pc \in {"trained", "binned"}

\* C13: the centroids of a trained k-means binner ascend, and binning is
\* monotone: for values x < y binned by the same binner, bin(x) <= bin(y),
\* empty clusters and duplicate centroids included.
C13_BinsMonotone ==
    Trained =>
        /\ \A key \in DOMAIN binners :
              \A c \in 1..(Len(binners[key]) - 1) :
                 FLeq(binners[key][c], binners[key][c + 1])
        /\ bin_pc = "binned" =>
              \A i, j \in 1..Len(time_trace) :
                 (/\ time_trace[i][1] = time_trace[j][1]
                  /\ time_trace[i][2] < time_trace[j][2])
                    => tokens[i][2] <= tokens[j][2]

\* Two values of one activity were binned by a binner with duplicate
\* centroids, into different bins.
C13_Witness ==
    /\ component = "binning"
    /\ bin_pc = "binned"
    /\ time_trace[1][1] = time_trace[2][1]
    /\ time_trace[1][2] < time_trace[2][2]
    /\ tokens[1][2] < tokens[2][2]
    /\ \E c \in 1..(Len(binners[time_trace[1][1]]) - 1) :
          binners[time_trace[1][1]][c] = binners[time_trace[1][1]][c + 1]

\* C14: bin(x) is the index of the centroid nearest to x in the sorted
\* list, the lowest one when several are equally near; the binner holds
\* exactly num_bins() centroids and every index returned is < num_bins().
C14_BinIsNearestCentroid ==
    (component = "binning" /\ bin_pc = "binned") =>
        \A i \in 1..Len(tokens) :
           LET centroids == binners[time_trace[i][1]]
               x == Div(time_trace[i][2], 1)
               away(c) == abs_difference(x, centroids[c + 1])
           IN /\ \A c \in 0..(Len(centroids) - 1) :
                    /\ FLeq(away(tokens[i][2]), away(c))
                    /\ c < tokens[i][2] => away(c) # away(tokens[i][2])
              /\ Len(centroids) = num_bins(args)
              /\ tokens[i][2] < num_bins(args)

\* C15: a k-means binner configured with k = 0 is rejected at construction
\* for every data set, every max_iter and every seed.
C15_ZeroClustersRejected ==
    (component = "binning" /\ args.k = 0) => bin_pc \notin {"trained", "binned"}

\* The values paired with key in the combined data, in their order.
PairedWith(key) ==
    LET chosen == SelectSeq(combined_data, LAMBDA pair : pair[1] = key)
    IN [i \in 1..Len(chosen) |-> chosen[i][2]]

\* C16: from_key_value_pairs creates one binner per distinct key, trained
\* on exactly the values paired with the key; bin(key, v) delegates to the
\* key's binner and panics for a key that was not in the training data.
C16_OneBinnerPerKey ==
    /\ Trained =>
          DOMAIN binners = {combined_data[i][1] : i \in 1..Len(combined_data)}
    /\ (component = "binning" /\ bin_pc = "trained") =>
          \A key \in DOMAIN binners :
             \E first \in 0..(Len(PairedWith(key)) - 1) :
                binners[key] = KMeansBinner_new(PairedWith(key), args, first)
    /\ (component = "binning" /\ time_trace # <<>>) =>
          IF \A i \in 1..Len(time_trace) :
                \E n \in 1..Len(combined_data) :
                   combined_data[n][1] = time_trace[i][1]
          THEN /\ bin_pc = "binned"
               /\ \A i \in 1..Len(time_trace) :
                     tokens[i] = <<time_trace[i][1],
                                   KMeansBinner_bin(binners[time_trace[i][1]],
                                                    time_trace[i][2])>>
          ELSE bin_pc = "panicked"

\* Two keys with differently trained binners, and a trace binned by both.
C16_Witness ==
    /\ component = "binning"
    /\ bin_pc = "binned"
    /\ DOMAIN binners = Activities
    /\ binners["a"] # binners["b"]
    /\ time_trace[1][1] # time_trace[2][1]
    /\ tokens[1][2] # tokens[2][2]

\* A call of compare has returned its result.
Returned == component = "resampling" /\ pc = "done"

\* C17: in both comparators the p-value is the number of resampled EMDs
\* strictly greater than the observed EMD, divided by distribution_size; an
\* EMD equal to the observed one is not counted, and the result lists exactly
\* distribution_size resampled EMDs.
C17_PValueIsStrictFraction ==
    Returned =>
       /\ Len(emds) = distribution_size
       /\ \A not_greater \in {{i \in 1..Len(emds) :
                                  \/ emds[i] = NaN
                                  \/ logs_emd = NaN
                                  \/ FLeq(emds[i], logs_emd)}} :
             /\ \A i \in 1..Len(emds) : emds[i] = logs_emd => i \in not_greater
             /\ pvalue = Div(distribution_size - Cardinality(not_greater),
                             distribution_size)

\* A resampled EMD equal to the observed EMD, and a p-value of 0.
C17_Witness ==
    /\ Returned
    /\ distribution_size = 1
    /\ IsNumber(logs_emd)
    /\ emds[1] = logs_emd
    /\ pvalue = Div(0, 1)

\* C18: whenever compare returns, the p-value is a number in [0, 1], also
\* for distribution_size 0, and reordering the resampled EMDs leaves it
\* unchanged.
C18_PValueInUnitInterval ==
    Returned =>
       /\ IsNumber(pvalue)
       /\ FLeq(Div(0, 1), pvalue)
       /\ FLeq(pvalue, Div(1, 1))
       /\ \A reordering \in Enumerations(1..Len(emds)) :
             PValue([i \in 1..Len(emds) |-> emds[reordering[i]]], logs_emd,
                    distribution_size) = pvalue

\* C19: a second run of the bootstrap comparator on the same logs with the
\* same resample_size, distribution_size and Some(seed) draws the same
\* sample in each iteration and returns the same logs_emd, the same
\* bootstrap_emds in the same order and the same pvalue.
C19_SeededRunsIdentical ==
    (component = "resampling" /\ comparator = "bootstrap" /\ seed # NoSeed
        /\ run = 2) =>
       /\ pc \in {"resampling", "iterated"} => logs_emd = first_result.logs_emd
       /\ Len(samples) <= Len(first_result.samples)
       /\ \A t \in 1..Len(samples) : samples[t] = first_result.samples[t]
       /\ Len(emds) <= Len(first_result.emds)
       /\ \A t \in 1..Len(emds) : emds[t] = first_result.emds[t]
       /\ pc = "done" =>
             /\ logs_emd = first_result.logs_emd
             /\ emds = first_result.emds
             /\ pvalue = first_result.pvalue

\* The second seeded run has returned, with resample_size the size of log 1
\* and one iteration whose sample holds two different variants.
C19_Witness ==
    /\ Returned
    /\ comparator = "bootstrap"
    /\ seed # NoSeed
    /\ run = 2
    /\ distribution_size = 1
    /\ resample_size = Len(behavior_1)
    /\ Len(samples) = 1
    /\ \E i, j \in 1..resample_size : samples[1][i] # samples[1][j]
    /\ IsNumber(pvalue)

\* C20: for two identical logs under the control-flow cost, logs_emd is
\* exactly 0 in both comparators: the two languages are equal, the projected
\* cost matrix has a zero diagonal and the flow costs nothing.
C20_IdenticalLogsZeroEmd ==
    (component = "resampling" /\ behavior_1 = behavior_2
        /\ pc \notin {"start", "err"}) =>
       /\ stoch_lang_1 = stoch_lang_2
       /\ \A i \in 1..log_1_log_2_distances.nrows :
             log_1_log_2_distances.cell[<<i, i>>] = Div(0, 1)
       /\ pc # "panicked"
       /\ logs_emd = Div(0, 1)

\* C21: every failure during compare reaches the caller as a typed Err: an
\* attribute error of the extraction is returned before any distance or EMD
\* is computed, and a failure of the EMD solver in the baseline or in an
\* iteration is returned as an error value too; the call ends in no other way.
C21_FailuresAreTypedErrors ==
    component = "resampling" =>
       /\ pc \in {"start", "resampling", "iterated", "done", "err"}
       /\ pc = "err" =>
             /\ stoch_lang_1 = NoLanguage
             /\ mat = NoMatrix
             /\ log_1_log_2_distances = NoMatrix
             /\ emds = <<>>

\* emd() has returned without touching what the caller handed in.
InputsUnchanged ==
    /\ emd_source = emd_given.source
    /\ emd_target = emd_given.target
    /\ emd_costs = emd_given.costs

\* C22: emd() returns Err(InvalidIterations) when iterations <= 0 and
\* Err(WeightDimensionError(|source|, |target|, rows, cols)) when the cost
\* matrix is not |source| x |target|, both before the target weights are
\* rescaled and before the solver is called; otherwise it returns Ok exactly
\* when the solver's code is 1, and Infeasible, Unbounded, MaxIterReached for
\* the codes 0, 2, 3.
C22_EmdResultByCase ==
    (component = "emd" /\ emd_pc = "returned") =>
       IF emd_iterations <= 0
       THEN /\ emd_result.kind = "InvalidIterations"
            /\ emd_result.args = <<emd_iterations>>
            /\ emd_result.code = -1
            /\ InputsUnchanged
       ELSE IF emd_costs.nrows # Len(emd_source) \/ emd_costs.ncols # Len(emd_target)
       THEN /\ emd_result.kind = "WeightDimensionError"
            /\ emd_result.args = <<Len(emd_source), Len(emd_target),
                                   emd_costs.nrows, emd_costs.ncols>>
            /\ emd_result.code = -1
            /\ InputsUnchanged
       ELSE /\ emd_result.code \in ResultCodes
            /\ emd_result.kind = "Ok" <=> emd_result.code = 1
            /\ emd_result.code = 0 => emd_result.kind = "Infeasible"
            /\ emd_result.code = 2 => emd_result.kind = "Unbounded"
            /\ emd_result.code = 3 => emd_result.kind = "MaxIterReached"

\* A cost matrix with the right rows and the wrong columns is rejected, the
\* weights of unequal mass left as they were.
C22_Witness ==
    /\ component = "emd"
    /\ emd_pc = "returned"
    /\ emd_iterations > 0
    /\ emd_costs.nrows = Len(emd_source)
    /\ emd_costs.ncols # Len(emd_target)
    /\ emd_result.kind = "WeightDimensionError"
    /\ Sum(emd_target) # Div(0, 1)
    /\ Sum(emd_target) # Sum(emd_source)
    /\ emd_target = emd_given.target

\* C29: when the solver is invoked, emd() has rescaled the target weights,
\* and only them, by sum(source) / sum(target): the target sums to what the
\* source sums to, the ratios between the target's entries are as they were,
\* and the source weights and the cost matrix are unchanged.
C29_TargetRescaled ==
    (component = "emd" /\ emd_pc = "solving") =>
       /\ emd_source = emd_given.source
       /\ emd_costs = emd_given.costs
       /\ Len(emd_target) = Len(emd_given.target)
       /\ Sum(emd_target) = Sum(emd_source)
       /\ \A i, j \in 1..Len(emd_target) :
             /\ IsNumber(emd_target[i])
             /\ emd_target[i].num * emd_target[j].den
                   * emd_given.target[j].num * emd_given.target[i].den
                = emd_target[j].num * emd_target[i].den
                   * emd_given.target[i].num * emd_given.target[j].den

\* The positions of a trace's events that count as 'complete': an event
\* without a lifecycle is taken as atomic, that is complete.
Completes(trace) ==
    {n \in 1..Len(trace) : trace[n].lifecycle \in {"complete", "none"}}

\* The i-th smallest member of a set of positions.
Nth(positions, i) ==
    CHOOSE n \in positions : Cardinality({x \in positions : x < n}) = i - 1

\* FIFO per activity: the earliest 'start' of the activity of the complete
\* event at n that precedes it and is matched to no earlier complete event;
\* 0 when there is none.
RECURSIVE FifoStart(_, _)
FifoStart(trace, n) ==
    LET taken == {FifoStart(trace, c) :
                     c \in {x \in Completes(trace) :
                               x < n /\ trace[x].activity = trace[n].activity}}
        free == {s \in 1..(n - 1) : /\ trace[s].lifecycle = "start"
                                     /\ trace[s].activity = trace[n].activity
                                     /\ s \notin taken}
    IN IF free = {} THEN 0 ELSE Nth(free, 1)

\* By instance id: the 'start' events before the complete event at n that
\* carry its id and have no complete event of that id after them.
IdStarts(trace, n) ==
    {s \in 1..(n - 1) :
        /\ trace[s].lifecycle = "start"
        /\ trace[s].instance_id = trace[n].instance_id
        /\ \A c \in Completes(trace) :
              (s < c /\ c < n) => trace[c].instance_id # trace[n].instance_id}

\* C23: after ensure_start_timestamp_key succeeds on a log in which some
\* event lacks start_timestamp, every trace holds exactly its complete
\* events, in their order, each with the start_timestamp of the 'start' event
\* matched to it (by instance id when all events carry one, else FIFO per
\* activity) or its own timestamp when no start matches; no start is matched
\* twice; a log whose events all have start_timestamp is left unchanged.
C23_StartTimestampsFolded ==
    (component = "preparation" /\ prep_pc = "returned") =>
       IF all_events_have(prep_given, "start_timestamp")
       THEN prep_result = "Ok" /\ prep_log = prep_given
       ELSE prep_result = "Ok" =>
          /\ Len(prep_log) = Len(prep_given)
          /\ \A k \in 1..Len(prep_given) :
             \A given \in {prep_given[k]} : \A kept \in {prep_log[k]} :
             \A completes \in {Completes(given)} :
                /\ Len(kept) = Cardinality(completes)
                /\ \A i \in 1..Len(kept) :
                   \A n \in {Nth(completes, i)} :
                      /\ kept[i].activity = given[n].activity
                      /\ kept[i].timestamp = given[n].timestamp
                      /\ kept[i].lifecycle = "complete"
                      /\ IF all_events_have(prep_given, "instance_id")
                         THEN IF IdStarts(given, n) = {}
                              THEN kept[i].start_timestamp = given[n].timestamp
                              ELSE \E s \in IdStarts(given, n) :
                                      kept[i].start_timestamp = given[s].timestamp
                         ELSE kept[i].start_timestamp =
                                 IF FifoStart(given, n) = 0
                                 THEN given[n].timestamp
                                 ELSE given[FifoStart(given, n)].timestamp
                /\ \A i, j \in 1..Len(kept) :
                      i # j => kept[i].start_timestamp # kept[j].start_timestamp

\* Two starts of one activity and one complete, without instance ids: the
\* complete event is kept with the timestamp of the first start.
C23_Witness ==
    /\ component = "preparation"
    /\ prep_pc = "returned"
    /\ prep_result = "Ok"
    /\ Len(prep_given) = 1
    /\ Len(prep_given[1]) = 3
    /\ \A n \in 1..3 : /\ prep_given[1][n].activity = "a"
                       /\ prep_given[1][n].instance_id = 0
                       /\ prep_given[1][n].start_timestamp = 0
    /\ prep_given[1][1].lifecycle = "start"
    /\ prep_given[1][2].lifecycle = "start"
    /\ prep_given[1][3].lifecycle = "complete"
    /\ Len(prep_log[1]) = 1
    /\ prep_log[1][1].start_timestamp = 1
    /\ prep_log[1][1].timestamp = 3

\* (0..sample_size).collect_vec(), counted from 1.
PooledIndices == [i \in 1..(Len(behavior_1) + Len(behavior_2)) |-> i]

\* sample_1 and sample_2 split the pooled case indices without replacement.
SplitWithoutReplacement ==
    /\ Len(sample_1) = Len(behavior_1)
    /\ Len(sample_2) = Len(behavior_2)
    /\ Range(sample_1) \cap Range(sample_2) = {}
    /\ Range(sample_1) \cup Range(sample_2) = Range(PooledIndices)
    /\ Cardinality(Range(sample_1)) = Len(sample_1)
    /\ Cardinality(Range(sample_2)) = Len(sample_2)

\* C24: in every iteration of the permutation test group 1 has |log1| of
\* the pooled case indices and group 2 the other |log2|, each index in
\* exactly one group and once, and the groups of every iteration, the
\* first and the later ones, are one partial shuffle of the full index list.
C24_SplitWithoutReplacement ==
    (component = "resampling" /\ comparator = "permutation" /\ sample_1 # <<>>)
    => /\ SplitWithoutReplacement
       /\ sample_1 \o sample_2
              \in partial_shuffle(PooledIndices, Len(behavior_1))

\* The second iteration on logs of different sizes has produced its two
\* groups.
C24_Witness ==
    /\ component = "resampling"
    /\ comparator = "permutation"
    /\ Len(behavior_1) # Len(behavior_2)
    /\ Len(emds) = 2
    /\ sample_1 # SubSeq(PooledIndices, 1, Len(behavior_1))
    /\ SplitWithoutReplacement

\* The last compute_emd call was made by an iteration of the permutation test.
PermutationIterated ==
    /\ component = "resampling"
    /\ comparator = "permutation"
    /\ sample_1 # <<>>

\* How many of the case indices of `group` are cases of `variant`.
CasesOf(variant, group) ==
    Cardinality({k \in 1..Len(group) :
                    (behavior_1 \o behavior_2)[group[k]] = variant})

\* C25: in every iteration of the permutation test the frequency of a
\* variant in group 1 is its count in group 1 divided by |log1|, that of a
\* variant in group 2 its count in group 2 divided by |log2|, and each
\* group's frequencies sum to 1.
C25_GroupLanguagesAreDistributions ==
    PermutationIterated =>
       /\ \A i \in 1..Len(emd_call.rows) :
             emd_call.frequencies_1[i]
                = Div(CasesOf(emd_call.rows[i], sample_1), Len(behavior_1))
       /\ \A j \in 1..Len(emd_call.columns) :
             emd_call.frequencies_2[j]
                = Div(CasesOf(emd_call.columns[j], sample_2), Len(behavior_2))
       /\ Sum(emd_call.frequencies_1) = Div(1, 1)
       /\ Sum(emd_call.frequencies_2) = Div(1, 1)

\* PermutationTestComparator::compare has built its pooled matrix.
PermutationCompared ==
    /\ component = "resampling"
    /\ comparator = "permutation"
    /\ pc \notin {"start", "err"}

\* The costs of the last compute_emd call are cells of the pooled matrix.
ReadsProjection ==
    \A i \in 1..Len(emd_call.rows), j \in 1..Len(emd_call.columns) :
        emd_call.distances.cell[<<i, j>>]
           = mat.cell[<<position(variants, emd_call.rows[i]),
                        position(variants, emd_call.columns[j])>>]

\* C26: in a permutation-test compare call the pooled variant list is the
\* sorted, duplicate-free union of both logs' representations, the cost
\* function is evaluated n(n+1)/2 times for n pooled variants, all of them
\* while the pooled matrix is built and whatever distribution_size is, and
\* afterwards the matrix is never modified: the baseline EMD and every
\* iteration read projections of it.
C26_PooledMatrixReadOnly ==
    /\ [](PermutationCompared =>
            /\ Range(variants) = Range(behavior_1 \o behavior_2)
            /\ \A i \in 1..(Len(variants) - 1) : variants[i] < variants[i + 1]
            /\ 2 * Len(evaluated) = Len(variants) * (Len(variants) + 1)
            /\ \A k, l \in 1..Len(evaluated) :
                  k # l => evaluated[k] # evaluated[l]
            /\ mat.nrows = Len(variants)
            /\ mat.ncols = Len(variants)
            /\ ReadsProjection)
    /\ [][PermutationCompared =>
             /\ mat' = mat
             /\ evaluated' = evaluated
             /\ variants' = variants]_vars

\* A compare call over three pooled variants has made an iteration.
C26_Witness ==
    /\ PermutationCompared
    /\ pc = "iterated"
    /\ Len(emds) = 1
    /\ Len(variants) = 3
    /\ Len(evaluated) = 6
    /\ sample_1 # <<1>>

\* bootstrap_emd_population is running or has returned.
BootstrapSampling ==
    /\ component = "resampling"
    /\ comparator = "bootstrap"
    /\ pc \notin {"start", "err"}

\* How often the variant occurs among the variants drawn in sample_1.
DrawsOf(variant) ==
    Cardinality({k \in 1..Len(sample_1) : stoch_lang_1.variants[sample_1[k]] = variant})

\* C27: bootstrap_emd_population computes log 1's self-distance matrix once
\* and performs exactly distribution_size iterations; each iteration takes
\* resample_size draws, the next ones of one shared stream, each the index of
\* a variant of log 1 with positive frequency; the sample's language gives a
\* drawn variant the frequency count / resample_size and is compared with
\* the unchanged language of log 1.
C27_BootstrapDraws ==
    /\ [](BootstrapSampling =>
            /\ mat.nrows = Len(stoch_lang_1.variants)
            /\ mat.ncols = Len(stoch_lang_1.variants)
            /\ Len(emds) <= distribution_size
            /\ pc = "done" => Len(emds) = distribution_size
            /\ seed # NoSeed =>
                  /\ rng.drawn = resample_size * Len(samples)
                  /\ pc # "panicked" => Len(samples) = Len(emds)
                  /\ \A t \in 1..Len(samples) : \A k \in 1..resample_size :
                        samples[t][k]
                           = Generated(seed_from_u64(seed, rng),
                                       (t - 1) * resample_size + k,
                                       Len(stoch_lang_1.variants))
            /\ sample_1 # <<>> =>
                  /\ Len(sample_1) = resample_size
                  /\ \A k \in 1..Len(sample_1) :
                        /\ sample_1[k] \in 1..Len(stoch_lang_1.variants)
                        /\ FLess(Div(0, 1), stoch_lang_1.frequencies[sample_1[k]])
                  /\ Range(emd_call.rows)
                        = {stoch_lang_1.variants[sample_1[k]] : k \in 1..Len(sample_1)}
                  /\ \A i \in 1..Len(emd_call.rows) :
                        emd_call.frequencies_1[i]
                           = Div(DrawsOf(emd_call.rows[i]), resample_size)
                  /\ emd_call.columns = stoch_lang_1.variants
                  /\ emd_call.frequencies_2 = stoch_lang_1.frequencies)
    /\ [][(BootstrapSampling /\ pc \in {"resampling", "iterated"}) =>
             /\ mat' = mat
             /\ stoch_lang_1' = stoch_lang_1
             /\ Len(emds') <= Len(emds) + 1]_vars

\* An iteration has drawn the same variant of a log of two variants twice.
C27_Witness ==
    /\ BootstrapSampling
    /\ Len(stoch_lang_1.variants) = 2
    /\ resample_size = 2
    /\ Len(emds) = 1
    /\ sample_1 = <<2, 2>>
    /\ emd_call.frequencies_1 = <<Div(1, 1)>>

\* The sets of case indices that sample.split_at(behavior_1.len()).0 can
\* hold after the partial shuffle.
PossibleGroups ==
    {Range(SubSeq(a, 1, Len(behavior_1))) :
        a \in partial_shuffle(PooledIndices, Len(behavior_1))}

\* C28: for all log sizes, every set of |log1| pooled case indices is a
\* possible group 1 of the permutation draw.
C28_EverySplitPossible ==
    (component = "resampling" /\ comparator = "permutation" /\ seed = NoSeed
        /\ pc = "resampling") =>
       \A S \in SUBSET Range(PooledIndices) :
          Cardinality(S) = Len(behavior_1) => S \in PossibleGroups

\* A case index that is behind the first |log1| positions of the pooled
\* list and before its last |log1| positions is never drawn into group 1.
NeverDrawnFromTheMiddle ==
    (component = "resampling" /\ comparator = "permutation" /\ sample_1 # <<>>) =>
       \A k \in 1..Len(sample_1) :
          ~(Len(behavior_1) < sample_1[k] /\ sample_1[k] <= Len(behavior_2))

\* compute_emd has been called by a comparator.
EmdCalled == component = "resampling" /\ emd_call # NoCall

\* The cases the first / second argument of the last compute_emd call was
\* built from: a log, the sample, or a group of the permutation.
Cases_1 ==
    IF sample_1 = <<>> THEN behavior_1
    ELSE IF comparator = "bootstrap"
    THEN [k \in 1..Len(sample_1) |-> stoch_lang_1.variants[sample_1[k]]]
    ELSE [k \in 1..Len(sample_1) |-> (behavior_1 \o behavior_2)[sample_1[k]]]

Cases_2 ==
    IF sample_1 = <<>> THEN behavior_2
    ELSE IF comparator = "bootstrap" THEN behavior_1
    ELSE [k \in 1..Len(sample_2) |-> (behavior_1 \o behavior_2)[sample_2[k]]]

\* `names` lists each variant of `cases` once, and the frequencies at the
\* same positions are in the proportion of the variants' numbers of cases.
Labelled(names, frequencies, cases) ==
    /\ Len(names) = Len(frequencies)
    /\ Range(names) = Range(cases)
    /\ Cardinality(Range(names)) = Len(names)
    /\ \A i, k \in 1..Len(names) :
          Div(frequencies[i].num * Occurrences(cases, names[k]), frequencies[i].den)
             = Div(frequencies[k].num * Occurrences(cases, names[i]), frequencies[k].den)

\* C30: at every compute_emd call of either comparator, baseline and
\* iterations, the cost matrix has a row for each entry of the first
\* frequency vector and a column for each entry of the second, and row i,
\* column j holds the cost between the variant whose frequency is at
\* position i of the first and the one whose frequency is at position j of
\* the second vector, in whatever order the counts were enumerated.
C30_EmdInputsAligned ==
    EmdCalled =>
       /\ emd_call.distances.nrows = Len(emd_call.frequencies_1)
       /\ emd_call.distances.ncols = Len(emd_call.frequencies_2)
       /\ Labelled(emd_call.rows, emd_call.frequencies_1, Cases_1)
       /\ Labelled(emd_call.columns, emd_call.frequencies_2, Cases_2)
       /\ \A i \in 1..Len(emd_call.rows), j \in 1..Len(emd_call.columns) :
             emd_call.distances.cell[<<i, j>>]
                = cost(emd_call.rows[i], emd_call.columns[j])

\* An iteration of the permutation test whose second group was enumerated
\* with the greater variant first.
C30_Witness ==
    /\ PermutationIterated
    /\ pc = "iterated"
    /\ Len(emd_call.columns) = 2
    /\ emd_call.columns[1] > emd_call.columns[2]
    /\ Len(emds) = 2

====
